---- MODULE Spec2Model ----
(***************************************************************************)
(* A model of server.js: the Express handlers of the game library, the two *)
(* MySQL tables they query (juegos, amigos), the files below __dirname and *)
(* the fs.unlink calls that are in flight.  A handler is one action per    *)
(* stretch of code between two awaits: the action that receives a request  *)
(* runs the handler up to its first await, and each later action executes  *)
(* the awaited statement on the tables and runs the continuation up to the *)
(* next await or to the response.  Two further parts stand around the      *)
(* server: the connection pool that mysql.createPool configures, and the   *)
(* browser client (GamesPanel and AddGameForm), whose handlers are, in the *)
(* same way, one action per stretch between two awaited fetches.           *)
(*                                                                         *)
(* Encodings.  A string that the code only compares or stores (nombre) is  *)
(* a TLA+ string.  imagen_url is the sequence of its "/"-separated         *)
(* segments ("img/x.p" is <<"img", "x.p">>, "" is <<>>), because path.join *)
(* works on segments.  An uploaded file's originalname is the sequence of  *)
(* its characters, because path.extname works on characters.  A JSON body  *)
(* is a record that holds only the fields the client sent.  The process    *)
(* runs with its working directory equal to __dirname, so multer's         *)
(* relative 'public/img/' is the directory the delete handler addresses.   *)
(***************************************************************************)
EXTENDS Bags, FiniteSets, Integers, Sequences, TLC

VARIABLES
    juegos,         \* table juegos: id -> [nombre, imagen_url, favorito]
    juegosAutoInc,  \* AUTO_INCREMENT of juegos: the id of the next insert
    amigos,         \* table amigos: id -> [nombre]
    amigosAutoInc,  \* AUTO_INCREMENT of amigos
    files,          \* the regular files on disk, as absolute segment paths
    now,            \* Date.now()
    reqs,           \* the requests being served, one record per connection
    unlinks,        \* bag of fs.unlink calls whose callback has not run
    errlog,         \* paths of the console.error lines of failed unlinks
    checkedOut,     \* pool: the queries that hold a connection
    waiters,        \* pool: the queries waiting for a connection, oldest first
    refused,        \* pool: the queries that were refused a connection
    view,           \* client: the view state of App, a prop of GamesPanel
    games,          \* client: the games state of GamesPanel
    calls,          \* client: the handler invocations awaiting a fetch
    isSubmitting,   \* client: the isSubmitting state of AddGameForm
    loading,        \* client: the loading state of GamesPanel
    error           \* client: the error state of GamesPanel, a message or null

\* The connection pool and the browser client.
poolVars == <<checkedOut, waiters, refused>>
clientVars == <<view, games, calls, isSubmitting, loading, error>>

vars == <<juegos, juegosAutoInc, amigos, amigosAutoInc, files, now, reqs,
          unlinks, errlog, poolVars, clientVars>>

(***************************************************************************)
(* Bounds of the model.                                                    *)
(***************************************************************************)
MaxJuegos == 2
MaxAmigos == 2
MaxTime == 1
MaxRand == 1
MaxWaiting == 2

\* The connections of the model: two requests are in progress at a time,
\* which is what the interleavings of two handlers need.
Reqs == {1, 2}
GameIds == 1..MaxJuegos
FriendIds == 1..MaxAmigos

\* The values a client sends as nombre: two names, a blank one, the empty one.
Nombres == {"a", "b", " ", ""}

\* The original names of uploaded files: "a.p" and "b".
OriginalNames == {<<"a", ".", "p">>, <<"b">>}

(***************************************************************************)
(* Pure helpers: path, multer and JavaScript truthiness.                   *)
(***************************************************************************)

\* __dirname (server.js:29), the directory of server.js.
Dirname == <<"app">>

\* The directories that exist below __dirname once the module has loaded
\* (server.js:33-36 creates public/img when it is absent).
Directories == {<<"app">>, <<"app", "public">>, <<"app", "public", "img">>}

\* path.normalize on segments: "" and "." are dropped, ".." removes the
\* segment before it; an empty last segment, which is a trailing "/", is
\* kept unless nothing is before it.
RECURSIVE Normalize(_, _)
Normalize(done, rest) ==
    IF rest = <<>> THEN done
    ELSE IF rest = <<"">> THEN (IF done = <<>> THEN done ELSE Append(done, ""))
    ELSE IF Head(rest) \in {"", "."} THEN Normalize(done, Tail(rest))
    ELSE IF Head(rest) = ".."
         THEN Normalize(IF done = <<>> THEN done ELSE SubSeq(done, 1, Len(done) - 1),
                        Tail(rest))
    ELSE Normalize(Append(done, Head(rest)), Tail(rest))

\* path.join(a, b): the segments of both, normalized.
PathJoin(a, b) == Normalize(<<>>, a \o b)

\* path.join(__dirname, 'public', imageUrl) of the delete handler.
ImagePath(imageUrl) == PathJoin(PathJoin(Dirname, <<"public">>), imageUrl)

\* The index of the last "." of a name, 0 when it has none.
RECURSIVE LastDot(_, _)
LastDot(name, i) ==
    IF i = 0 THEN 0
    ELSE IF name[i] = "." THEN i
    ELSE LastDot(name, i - 1)

\* The characters of a sequence joined into one string.
RECURSIVE Concat(_)
Concat(chars) == IF chars = <<>> THEN "" ELSE Head(chars) \o Concat(Tail(chars))

\* The index of the last "/" of a name, 0 when it has none.
RECURSIVE LastSlash(_, _)
LastSlash(name, i) ==
    IF i = 0 THEN 0
    ELSE IF name[i] = "/" THEN i
    ELSE LastSlash(name, i - 1)

\* A name without the "/" at its end.
RECURSIVE StripSlashes(_)
StripSlashes(name) ==
    IF name # <<>> /\ name[Len(name)] = "/"
    THEN StripSlashes(SubSeq(name, 1, Len(name) - 1))
    ELSE name

\* The part of a name without "/" at its end that follows its last "/".
LastPart(stripped) ==
    SubSeq(stripped, LastSlash(stripped, Len(stripped)) + 1, Len(stripped))

\* The last part of a path: what follows the last "/" that is not at the
\* end.  The name without its final "/" is computed once.
Basename(name) ==
    CHOOSE part \in {LastPart(stripped) : stripped \in {StripSlashes(name)}} : TRUE

\* The extension of a last part: from its last "." to its end; "" when it
\* has no ".", when the last one is its first character, and for "..".
ExtOf(base) ==
    IF LastDot(base, Len(base)) <= 1 \/ base = <<".", ".">> THEN ""
    ELSE Concat(SubSeq(base, LastDot(base, Len(base)), Len(base)))

\* path.extname: the extension of the last part of the path.  The last
\* part is computed once.
Extname(name) ==
    CHOOSE ext \in {ExtOf(base) : base \in {Basename(name)}} : TRUE

\* The filename callback of multer.diskStorage.
UploadFilename(fieldname, time, random, originalname) ==
    fieldname \o "-" \o ToString(time) \o "-" \o ToString(random) \o Extname(originalname)

\* The imageUrl of the upload response: `img/${req.file.filename}`.
\* Mutant of ImageUrl: the response holds the path below the server's
\* directory instead of the path below public.
ImageUrlBelowDirname(filename) == <<"public", "img", filename>>

ImageUrl(filename) == <<"img", filename>>

\* The file multer writes: destination 'public/img/' joined with the filename.
StoredPath(filename) == PathJoin(Dirname, <<"public", "img", filename>>)

\* Mutant of NombreMissing: only an absent field is rejected.
NombreMissingOnlyAbsent(body) == "nombre" \notin DOMAIN body

\* !nombre of the validations: the field is absent or the empty string.
NombreMissing(body) == "nombre" \notin DOMAIN body \/ body.nombre = ""

\* !imagen_url of POST /api/games: the field is absent or the empty string.
ImagenUrlMissing(body) == "imagen_url" \notin DOMAIN body \/ body.imagen_url = <<>>

\* Mutant of IsFavoriteValue: the branches of the conditional are swapped.
IsFavoriteValueSwapped(body) ==
    IF "favorito" \in DOMAIN body /\ body.favorito THEN 0 ELSE 1

\* Mutant of IsFavoriteValue: a toggle, 1 whatever the body says.
IsFavoriteValueAlwaysOne(body) == 1

\* req.body.favorito ? 1 : 0
IsFavoriteValue(body) ==
    IF "favorito" \in DOMAIN body /\ body.favorito THEN 1 ELSE 0

(***************************************************************************)
(* The Record Store: what each SQL statement of the handlers computes.     *)
(***************************************************************************)

\* The rows of a table, each with its id column.
Rows(table) == {[id |-> i] @@ table[i] : i \in DOMAIN table}

\* The place of a nombre in the order of ORDER BY nombre (the column's
\* collation pads with spaces, so "" and " " compare equal).
NombreRank(nombre) ==
    CASE nombre \in {"", " "} -> 0
      [] nombre = "a" -> 1
      [] nombre = "b" -> 2

\* Mutant of OrderByNombre: ORDER BY nombre DESC.
OrderByNombreDesc(rows) ==
    {s \in [1..Cardinality(rows) -> rows] :
        /\ \A i, j \in DOMAIN s : i # j => s[i] # s[j]
        /\ \A i, j \in DOMAIN s : i < j => NombreRank(s[i].nombre) >= NombreRank(s[j].nombre)}

\* The results ORDER BY nombre may return for a set of rows: every
\* arrangement with the nombres ascending (rows with equal nombre come in
\* any order).
OrderByNombre(rows) ==
    {s \in [1..Cardinality(rows) -> rows] :
        /\ \A i, j \in DOMAIN s : i # j => s[i] # s[j]
        /\ \A i, j \in DOMAIN s : i < j => NombreRank(s[i].nombre) <= NombreRank(s[j].nombre)}

\* SELECT * FROM juegos ORDER BY nombre   (also: FROM amigos)
SelectAll(table) == OrderByNombre(Rows(table))

\* SELECT * FROM juegos WHERE favorito = 1 ORDER BY nombre
SelectFavorites(table) == OrderByNombre({row \in Rows(table) : row.favorito = 1})

\* SELECT imagen_url FROM juegos WHERE id = ?
SelectImagenUrl(table, id) ==
    IF id \in DOMAIN table THEN <<[imagen_url |-> table[id].imagen_url]>> ELSE <<>>

\* affectedRows of an UPDATE or DELETE ... WHERE id = ?: the rows matched.
AffectedRows(table, id) == IF id \in DOMAIN table THEN 1 ELSE 0

\* Mutant of InsertJuego: the row is inserted as a favorite.
InsertJuegoAsFavorite(table, id, nombre, imagen_url) ==
    [i \in DOMAIN table \cup {id} |->
        IF i = id THEN [nombre |-> nombre, imagen_url |-> imagen_url, favorito |-> 1]
        ELSE table[i]]

\* INSERT INTO juegos (nombre, imagen_url, favorito) VALUES (?, ?, 0)
InsertJuego(table, id, nombre, imagen_url) ==
    [i \in DOMAIN table \cup {id} |->
        IF i = id THEN [nombre |-> nombre, imagen_url |-> imagen_url, favorito |-> 0]
        ELSE table[i]]

\* INSERT INTO amigos (nombre) VALUES (?)
InsertAmigo(table, id, nombre) ==
    [i \in DOMAIN table \cup {id} |-> IF i = id THEN [nombre |-> nombre] ELSE table[i]]

\* Mutant of UpdateFavorito: the statement flips the stored value, so that
\* a request is a delta (SET favorito = 1 - favorito).
UpdateFavoritoFlips(table, id, value) ==
    [i \in DOMAIN table |->
        IF i = id THEN [table[i] EXCEPT !.favorito = 1 - @] ELSE table[i]]

\* UPDATE juegos SET favorito = ? WHERE id = ?
UpdateFavorito(table, id, value) ==
    [i \in DOMAIN table |-> IF i = id THEN [table[i] EXCEPT !.favorito = value] ELSE table[i]]

\* Mutant of UpdateNombre: the statement writes the whole row from the body,
\* which holds no imagen_url.
UpdateNombreClearsUrl(table, id, nombre) ==
    [i \in DOMAIN table |->
        IF i = id THEN [table[i] EXCEPT !.nombre = nombre, !.imagen_url = <<>>] ELSE table[i]]

\* Mutant of UpdateNombre: the statement has no WHERE clause.
UpdateNombreAllRows(table, id, nombre) ==
    [i \in DOMAIN table |-> [table[i] EXCEPT !.nombre = nombre]]

\* UPDATE juegos SET nombre = ? WHERE id = ?   (also: UPDATE amigos)
UpdateNombre(table, id, nombre) ==
    [i \in DOMAIN table |-> IF i = id THEN [table[i] EXCEPT !.nombre = nombre] ELSE table[i]]

\* Mutant of DeleteRow: the statement removes nothing.
DeleteRowKeepsRow(table, id) == table

\* DELETE FROM juegos WHERE id = ?   (also: FROM amigos)
DeleteRow(table, id) == [i \in DOMAIN table \ {id} |-> table[i]]

(***************************************************************************)
(* Requests and responses.                                                 *)
(***************************************************************************)

\* A connection that serves no request.
Idle == [op |-> "none", pc |-> "idle", id |-> 0, body |-> <<>>, file |-> <<>>,
         gameResult |-> <<>>, res |-> [status |-> 0], queries |-> 0]

\* A request that has reached its handler; pc names the await it stands at.
Request(op, pc, id, body) ==
    [op |-> op, pc |-> pc, id |-> id, body |-> body, file |-> <<>>, gameResult |-> <<>>,
     res |-> [status |-> 0], queries |-> 0]

\* A connection takes a new request once the last one has been answered.
Accepts(r) == reqs[r].pc \in {"idle", "done"}

\* res.status(...).json(...): the response is sent and the handler is over.
Answered(req, res) == [req EXCEPT !.pc = "done", !.res = res]

\* Mutant of StoreFault: the catch block runs the statement once more
\* before it answers.
StoreFaultRetries(req) == Answered([req EXCEPT !.queries = @ + 2],
                                   [status |-> 500, error |-> "err.message"])

\* The catch block of every handler: res.status(500).json({error: err.message}).
StoreFault(req) == Answered([req EXCEPT !.queries = @ + 1],
                            [status |-> 500, error |-> "err.message"])

\* The statement of a request ran without a fault.
Ran(req) == [req EXCEPT !.queries = @ + 1]

\* The imagen_url values a client sends: the paths of the files in the
\* upload directory, a path no upload returned, and a path leaving public/.
ClientUrls ==
    {ImageUrl(p[4]) : p \in {q \in files : Len(q) = 4 /\ SubSeq(q, 1, 3) = <<"app", "public", "img">>}}
    \cup {<<"img", "x.p">>, <<"..", "server.js">>, <<>>}

\* The JSON bodies of POST /api/games.
GameBodies ==
    {<<>>} \cup {[nombre |-> n] : n \in Nombres}
           \cup {[imagen_url |-> u] : u \in ClientUrls}
           \cup {[nombre |-> n, imagen_url |-> u] : n \in Nombres, u \in ClientUrls}

\* The JSON bodies of the update-name and create-friend requests.
NombreBodies == {<<>>} \cup {[nombre |-> n] : n \in Nombres}

\* The JSON bodies of PUT /api/games/:id/favorite.
FavoritoBodies == {<<>>} \cup {[favorito |-> b] : b \in BOOLEAN}

\* INSERT statements that have been issued and have not run yet.
PendingInserts(op) == Cardinality({r \in Reqs : reqs[r].op = op /\ reqs[r].pc = "query"})

\* No handler of the client is waiting on this connection.
NoCall == [handler |-> "none"]

(***************************************************************************)
(* The state once the module has loaded: empty tables, server.js on disk,  *)
(* no request.                                                             *)
(***************************************************************************)
Init ==
    /\ juegos = <<>>
    /\ juegosAutoInc = 1
    /\ amigos = <<>>
    /\ amigosAutoInc = 1
    /\ files = {<<"app", "server.js">>}
    /\ now = 0
    /\ reqs = [r \in Reqs |-> Idle]
    /\ unlinks = EmptyBag
    /\ errlog = {}
    /\ checkedOut = {}
    /\ waiters = <<>>
    /\ refused = {}
    /\ view = "all"
    /\ games = <<>>
    /\ calls = [r \in Reqs |-> NoCall]
    /\ isSubmitting = FALSE
    /\ loading = TRUE
    /\ error = "null"

\* Time passes: Date.now() returns a later millisecond.
Tick ==
    /\ now < MaxTime
    /\ now' = now + 1
    /\ UNCHANGED <<juegos, juegosAutoInc, amigos, amigosAutoInc, files,
                   reqs, unlinks, errlog, poolVars, clientVars>>

(***************************************************************************)
(* GET /api/games and GET /api/games/favorites                             *)
(***************************************************************************)
GetGames(r) ==
    /\ Accepts(r)
    /\ reqs' = [reqs EXCEPT ![r] = Request("getGames", "query", 0, <<>>)]
    /\ UNCHANGED <<juegos, juegosAutoInc, amigos, amigosAutoInc, files,
                   now, unlinks, errlog, poolVars, clientVars>>

GetGamesQuery(r) ==
    /\ reqs[r].op = "getGames" /\ reqs[r].pc = "query"
    /\ \/ reqs' = [reqs EXCEPT ![r] = StoreFault(@)]
       \/ \E results \in SelectAll(juegos) :
            reqs' = [reqs EXCEPT ![r] =
                        Answered(Ran(@), [status |-> 200, message |-> "success", data |-> results])]
    /\ UNCHANGED <<juegos, juegosAutoInc, amigos, amigosAutoInc, files,
                   now, unlinks, errlog, poolVars, clientVars>>

GetFavorites(r) ==
    /\ Accepts(r)
    /\ reqs' = [reqs EXCEPT ![r] = Request("getFavorites", "query", 0, <<>>)]
    /\ UNCHANGED <<juegos, juegosAutoInc, amigos, amigosAutoInc, files,
                   now, unlinks, errlog, poolVars, clientVars>>

GetFavoritesQuery(r) ==
    /\ reqs[r].op = "getFavorites" /\ reqs[r].pc = "query"
    /\ \/ reqs' = [reqs EXCEPT ![r] = StoreFault(@)]
       \/ \E results \in SelectFavorites(juegos) :
            reqs' = [reqs EXCEPT ![r] =
                        Answered(Ran(@), [status |-> 200, message |-> "success", data |-> results])]
    /\ UNCHANGED <<juegos, juegosAutoInc, amigos, amigosAutoInc, files,
                   now, unlinks, errlog, poolVars, clientVars>>

(***************************************************************************)
(* PUT /api/games/:id/favorite                                             *)
(***************************************************************************)
PutFavorite(r, id, body) ==
    /\ Accepts(r)
    /\ reqs' = [reqs EXCEPT ![r] = Request("putFavorite", "query", id, body)]
    /\ UNCHANGED <<juegos, juegosAutoInc, amigos, amigosAutoInc, files,
                   now, unlinks, errlog, poolVars, clientVars>>

PutFavoriteQuery(r) ==
    /\ reqs[r].op = "putFavorite" /\ reqs[r].pc = "query"
    /\ \/ /\ reqs' = [reqs EXCEPT ![r] = StoreFault(@)]
          /\ UNCHANGED juegos
       \/ /\ juegos' = UpdateFavorito(juegos, reqs[r].id, IsFavoriteValue(reqs[r].body))
          /\ reqs' = [reqs EXCEPT ![r] =
                        Answered(Ran(@), [status |-> 200, message |-> "success",
                                          changes |-> AffectedRows(juegos, reqs[r].id)])]
    /\ UNCHANGED <<juegosAutoInc, amigos, amigosAutoInc, files,
                   now, unlinks, errlog, poolVars, clientVars>>

\* !game.favorito of the favorite button of a card (GameCard), for the 0 or
\* 1 of a row.
NewFavoriteStatus(game) == game.favorito = 0

(***************************************************************************)
(* POST /api/upload.  multer's upload.single('image') runs first: for the  *)
(* file of field image it calls the filename callback, which reads the     *)
(* clock and the random number, and opens the file of that name in         *)
(* public/img; it writes the data and sets req.file while other requests   *)
(* are served; then the handler answers with req.file.filename.  A request *)
(* without that field reaches the handler with req.file undefined.         *)
(***************************************************************************)
PostUploadNoFile(r) ==
    /\ Accepts(r)
    /\ reqs' = [reqs EXCEPT ![r] =
                  Answered(Request("postUpload", "query", 0, <<>>),
                           [status |-> 400, error |-> "No se subio ningun archivo."])]
    /\ UNCHANGED <<juegos, juegosAutoInc, amigos, amigosAutoInc, files,
                   now, unlinks, errlog, poolVars, clientVars>>

\* Mutant of PostUpload: the upload also records the stored image as a game.
PostUploadInsertsRow(r, originalname, random) ==
    /\ Accepts(r)
    /\ LET filename == UploadFilename("image", now, random, originalname) IN
         /\ files' = files \cup {StoredPath(filename)}
         /\ juegos' = InsertJuego(juegos, juegosAutoInc, "", ImageUrl(filename))
         /\ juegosAutoInc' = juegosAutoInc + 1
         /\ reqs' = [reqs EXCEPT ![r] =
                       [Request("postUpload", "write", 0, [image |-> originalname])
                           EXCEPT !.file = [filename |-> filename]]]
    /\ UNCHANGED <<amigos, amigosAutoInc, now, unlinks, errlog, poolVars, clientVars>>

\* The request arrives and multer stores the file under the generated name.
PostUpload(r, originalname, random) ==
    /\ Accepts(r)
    /\ LET filename == UploadFilename("image", now, random, originalname) IN
         /\ files' = files \cup {StoredPath(filename)}
         /\ reqs' = [reqs EXCEPT ![r] =
                       [Request("postUpload", "write", 0, [image |-> originalname])
                           EXCEPT !.file = [filename |-> filename]]]
    /\ UNCHANGED <<juegos, juegosAutoInc, amigos, amigosAutoInc,
                   now, unlinks, errlog, poolVars, clientVars>>

\* The request arrives and the storage cannot write the file (destination
\* 'public/img/' is relative to the working directory of the process, the
\* disk is full): multer hands the error to Express, which answers 500; the
\* handler is not called and no file is stored.
PostUploadFault(r, originalname) ==
    /\ Accepts(r)
    /\ reqs' = [reqs EXCEPT ![r] =
                  Answered(Request("postUpload", "write", 0, [image |-> originalname]),
                           [status |-> 500])]
    /\ UNCHANGED <<juegos, juegosAutoInc, amigos, amigosAutoInc, files,
                   now, unlinks, errlog, poolVars, clientVars>>

\* The write has finished: the handler runs with req.file set and answers.
PostUploadStored(r) ==
    /\ reqs[r].op = "postUpload" /\ reqs[r].pc = "write"
    /\ reqs' = [reqs EXCEPT ![r] =
                  Answered(reqs[r], [status |-> 200,
                                     imageUrl |-> ImageUrl(reqs[r].file.filename)])]
    /\ UNCHANGED <<juegos, juegosAutoInc, amigos, amigosAutoInc, files,
                   now, unlinks, errlog, poolVars, clientVars>>

(***************************************************************************)
(* POST /api/games                                                         *)
(***************************************************************************)
PostGames(r, body) ==
    /\ Accepts(r)
    /\ IF NombreMissing(body) \/ ImagenUrlMissing(body)
       THEN reqs' = [reqs EXCEPT ![r] =
                       Answered(Request("postGames", "query", 0, body),
                                [status |-> 400,
                                 error |-> "El nombre y la URL de la imagen son requeridos."])]
       ELSE /\ juegosAutoInc + PendingInserts("postGames") <= MaxJuegos
            /\ reqs' = [reqs EXCEPT ![r] = Request("postGames", "query", 0, body)]
    /\ UNCHANGED <<juegos, juegosAutoInc, amigos, amigosAutoInc, files,
                   now, unlinks, errlog, poolVars, clientVars>>

\* Mutant of PostGamesQuery: the response carries affectedRows as the id.
PostGamesQueryAnswersAffectedRows(r) ==
    /\ reqs[r].op = "postGames" /\ reqs[r].pc = "query"
    /\ \/ /\ reqs' = [reqs EXCEPT ![r] = StoreFault(@)]
          /\ UNCHANGED <<juegos, juegosAutoInc>>
       \/ /\ juegos' = InsertJuego(juegos, juegosAutoInc, reqs[r].body.nombre,
                                   reqs[r].body.imagen_url)
          /\ juegosAutoInc' = juegosAutoInc + 1
          /\ reqs' = [reqs EXCEPT ![r] =
                        Answered(Ran(@), [status |-> 201, message |-> "Juego creado",
                                          id |-> 1,
                                          nombre |-> reqs[r].body.nombre,
                                          imagen_url |-> reqs[r].body.imagen_url])]
    /\ UNCHANGED <<amigos, amigosAutoInc, files, now, unlinks, errlog, poolVars, clientVars>>

PostGamesQuery(r) ==
    /\ reqs[r].op = "postGames" /\ reqs[r].pc = "query"
    /\ \/ /\ reqs' = [reqs EXCEPT ![r] = StoreFault(@)]
          /\ UNCHANGED <<juegos, juegosAutoInc>>
       \/ /\ juegos' = InsertJuego(juegos, juegosAutoInc, reqs[r].body.nombre,
                                   reqs[r].body.imagen_url)
          /\ juegosAutoInc' = juegosAutoInc + 1
          /\ reqs' = [reqs EXCEPT ![r] =
                        Answered(Ran(@), [status |-> 201, message |-> "Juego creado",
                                          id |-> juegosAutoInc,
                                          nombre |-> reqs[r].body.nombre,
                                          imagen_url |-> reqs[r].body.imagen_url])]
    /\ UNCHANGED <<amigos, amigosAutoInc, files, now, unlinks, errlog, poolVars, clientVars>>

(***************************************************************************)
(* DELETE /api/games/:id                                                   *)
(***************************************************************************)
DeleteGames(r, id) ==
    /\ Accepts(r)
    /\ reqs' = [reqs EXCEPT ![r] = Request("deleteGames", "select", id, <<>>)]
    /\ UNCHANGED <<juegos, juegosAutoInc, amigos, amigosAutoInc, files,
                   now, unlinks, errlog, poolVars, clientVars>>

\* Mutant of DeleteGamesSelect: the file is unlinked as soon as the lookup
\* has found the row, before the row is deleted.
DeleteGamesSelectUnlinksFirst(r) ==
    /\ reqs[r].op = "deleteGames" /\ reqs[r].pc = "select"
    /\ \/ reqs' = [reqs EXCEPT ![r] = StoreFault(@)] /\ UNCHANGED unlinks
       \/ LET gameResult == SelectImagenUrl(juegos, reqs[r].id) IN
            IF Len(gameResult) = 0
            THEN /\ reqs' = [reqs EXCEPT ![r] =
                               Answered(Ran(@), [status |-> 404, error |-> "Juego no encontrado."])]
                 /\ UNCHANGED unlinks
            ELSE /\ reqs' = [reqs EXCEPT ![r] =
                               [Ran(@) EXCEPT !.pc = "delete", !.gameResult = gameResult]]
                 /\ unlinks' = unlinks (+) SetToBag({[path |-> ImagePath(gameResult[1].imagen_url),
                                                       by |-> r, id |-> reqs[r].id]})
    /\ UNCHANGED <<juegos, juegosAutoInc, amigos, amigosAutoInc,
                   files, now, errlog, poolVars, clientVars>>

\* The SELECT runs; on a row the handler goes on to await the DELETE.
DeleteGamesSelect(r) ==
    /\ reqs[r].op = "deleteGames" /\ reqs[r].pc = "select"
    /\ \/ reqs' = [reqs EXCEPT ![r] = StoreFault(@)]
       \/ LET gameResult == SelectImagenUrl(juegos, reqs[r].id) IN
            IF Len(gameResult) = 0
            THEN reqs' = [reqs EXCEPT ![r] =
                            Answered(Ran(@), [status |-> 404, error |-> "Juego no encontrado."])]
            ELSE reqs' = [reqs EXCEPT ![r] =
                            [Ran(@) EXCEPT !.pc = "delete", !.gameResult = gameResult]]
    /\ UNCHANGED <<juegos, juegosAutoInc, amigos, amigosAutoInc, files,
                   now, unlinks, errlog, poolVars, clientVars>>

\* The DELETE runs; when it removed the row the handler calls fs.unlink and
\* answers at once, and when it removed none the handler ends with no answer.
DeleteGamesDelete(r) ==
    /\ reqs[r].op = "deleteGames" /\ reqs[r].pc = "delete"
    /\ \/ /\ reqs' = [reqs EXCEPT ![r] = StoreFault(@)]
          /\ UNCHANGED <<juegos, unlinks>>
       \/ /\ juegos' = DeleteRow(juegos, reqs[r].id)
          /\ IF AffectedRows(juegos, reqs[r].id) > 0
             THEN /\ unlinks' = unlinks (+) SetToBag({[path |-> ImagePath(reqs[r].gameResult[1].imagen_url),
                                                        by |-> r, id |-> reqs[r].id]})
                  /\ reqs' = [reqs EXCEPT ![r] =
                                Answered(Ran(@), [status |-> 200,
                                                  message |-> "Juego eliminado correctamente."])]
             ELSE /\ reqs' = [reqs EXCEPT ![r] = [Ran(@) EXCEPT !.pc = "hung"]]
                  /\ UNCHANGED unlinks
    /\ UNCHANGED <<juegosAutoInc, amigos, amigosAutoInc, files, now, errlog, poolVars, clientVars>>

\* Mutant of UnlinkCallback: a failed unlink is surfaced to the caller, as a
\* 500 that replaces the response of the request that started it.
UnlinkCallbackSurfacesFailure(u) ==
    /\ BagIn(u, unlinks)
    /\ unlinks' = unlinks (-) SetToBag({u})
    /\ IF u.path \in files
       THEN files' = files \ {u.path} /\ UNCHANGED <<errlog, reqs>>
       ELSE /\ errlog' = errlog \cup {u.path}
            /\ reqs' = [reqs EXCEPT ![u.by].res = [status |-> 500, error |-> "err.message"]]
            /\ UNCHANGED files
    /\ UNCHANGED <<juegos, juegosAutoInc, amigos, amigosAutoInc, now, poolVars, clientVars>>

\* Mutant of UnlinkCallback: the cleanup empties the upload directory.
UnlinkCallbackClearsDirectory(u) ==
    /\ BagIn(u, unlinks)
    /\ unlinks' = unlinks (-) SetToBag({u})
    /\ files' = {p \in files : p # u.path /\ (Len(p) < 3 \/ SubSeq(p, 1, 3) # <<"app", "public", "img">>)}
    /\ IF u.path \in files
       THEN UNCHANGED errlog
       ELSE errlog' = errlog \cup {u.path}
    /\ UNCHANGED <<juegos, juegosAutoInc, amigos, amigosAutoInc, now, reqs, poolVars, clientVars>>

\* fs.unlink completes and its callback runs: the file is removed, or the
\* path is no regular file and the callback logs the error.
UnlinkCallback(u) ==
    /\ BagIn(u, unlinks)
    /\ unlinks' = unlinks (-) SetToBag({u})
    /\ IF u.path \in files
       THEN files' = files \ {u.path} /\ UNCHANGED errlog
       ELSE errlog' = errlog \cup {u.path} /\ UNCHANGED files
    /\ UNCHANGED <<juegos, juegosAutoInc, amigos, amigosAutoInc, now, reqs, poolVars, clientVars>>

(***************************************************************************)
(* PUT /api/games/:id                                                      *)
(***************************************************************************)
PutGames(r, id, body) ==
    /\ Accepts(r)
    /\ IF NombreMissing(body)
       THEN reqs' = [reqs EXCEPT ![r] =
                       Answered(Request("putGames", "query", id, body),
                                [status |-> 400, error |-> "El nombre es requerido."])]
       ELSE reqs' = [reqs EXCEPT ![r] = Request("putGames", "query", id, body)]
    /\ UNCHANGED <<juegos, juegosAutoInc, amigos, amigosAutoInc, files,
                   now, unlinks, errlog, poolVars, clientVars>>

PutGamesQuery(r) ==
    /\ reqs[r].op = "putGames" /\ reqs[r].pc = "query"
    /\ \/ /\ reqs' = [reqs EXCEPT ![r] = StoreFault(@)]
          /\ UNCHANGED juegos
       \/ /\ juegos' = UpdateNombre(juegos, reqs[r].id, reqs[r].body.nombre)
          /\ IF AffectedRows(juegos, reqs[r].id) > 0
             THEN reqs' = [reqs EXCEPT ![r] =
                             Answered(Ran(@), [status |-> 200,
                                               message |-> "Juego actualizado correctamente."])]
             ELSE reqs' = [reqs EXCEPT ![r] =
                             Answered(Ran(@), [status |-> 404, error |-> "Juego no encontrado."])]
    /\ UNCHANGED <<juegosAutoInc, amigos, amigosAutoInc, files,
                   now, unlinks, errlog, poolVars, clientVars>>

(***************************************************************************)
(* The friend handlers: GET, POST, DELETE and PUT /api/friends[/:id]       *)
(***************************************************************************)
GetFriends(r) ==
    /\ Accepts(r)
    /\ reqs' = [reqs EXCEPT ![r] = Request("getFriends", "query", 0, <<>>)]
    /\ UNCHANGED <<juegos, juegosAutoInc, amigos, amigosAutoInc, files,
                   now, unlinks, errlog, poolVars, clientVars>>

GetFriendsQuery(r) ==
    /\ reqs[r].op = "getFriends" /\ reqs[r].pc = "query"
    /\ \/ reqs' = [reqs EXCEPT ![r] = StoreFault(@)]
       \/ \E results \in SelectAll(amigos) :
            reqs' = [reqs EXCEPT ![r] =
                        Answered(Ran(@), [status |-> 200, message |-> "success", data |-> results])]
    /\ UNCHANGED <<juegos, juegosAutoInc, amigos, amigosAutoInc, files,
                   now, unlinks, errlog, poolVars, clientVars>>

PostFriends(r, body) ==
    /\ Accepts(r)
    /\ IF NombreMissing(body)
       THEN reqs' = [reqs EXCEPT ![r] =
                       Answered(Request("postFriends", "query", 0, body),
                                [status |-> 400, error |-> "El nombre es requerido."])]
       ELSE /\ amigosAutoInc + PendingInserts("postFriends") <= MaxAmigos
            /\ reqs' = [reqs EXCEPT ![r] = Request("postFriends", "query", 0, body)]
    /\ UNCHANGED <<juegos, juegosAutoInc, amigos, amigosAutoInc, files,
                   now, unlinks, errlog, poolVars, clientVars>>

PostFriendsQuery(r) ==
    /\ reqs[r].op = "postFriends" /\ reqs[r].pc = "query"
    /\ \/ /\ reqs' = [reqs EXCEPT ![r] = StoreFault(@)]
          /\ UNCHANGED <<amigos, amigosAutoInc>>
       \/ /\ amigos' = InsertAmigo(amigos, amigosAutoInc, reqs[r].body.nombre)
          /\ amigosAutoInc' = amigosAutoInc + 1
          /\ reqs' = [reqs EXCEPT ![r] =
                        Answered(Ran(@), [status |-> 201, message |-> "Amigo creado",
                                          id |-> amigosAutoInc,
                                          nombre |-> reqs[r].body.nombre])]
    /\ UNCHANGED <<juegos, juegosAutoInc, files, now, unlinks, errlog, poolVars, clientVars>>

DeleteFriends(r, id) ==
    /\ Accepts(r)
    /\ reqs' = [reqs EXCEPT ![r] = Request("deleteFriends", "query", id, <<>>)]
    /\ UNCHANGED <<juegos, juegosAutoInc, amigos, amigosAutoInc, files,
                   now, unlinks, errlog, poolVars, clientVars>>

\* Mutant of DeleteFriendsQuery: the statement copied from the game handler
\* is run as well, DELETE FROM juegos WHERE id = ?.
DeleteFriendsQueryDeletesGame(r) ==
    /\ reqs[r].op = "deleteFriends" /\ reqs[r].pc = "query"
    /\ \/ /\ reqs' = [reqs EXCEPT ![r] = StoreFault(@)]
          /\ UNCHANGED <<amigos, juegos>>
       \/ /\ amigos' = DeleteRow(amigos, reqs[r].id)
          /\ juegos' = DeleteRow(juegos, reqs[r].id)
          /\ IF AffectedRows(amigos, reqs[r].id) > 0
             THEN reqs' = [reqs EXCEPT ![r] =
                             Answered(Ran(@), [status |-> 200,
                                               message |-> "Amigo eliminado correctamente."])]
             ELSE reqs' = [reqs EXCEPT ![r] =
                             Answered(Ran(@), [status |-> 404, error |-> "Amigo no encontrado."])]
    /\ UNCHANGED <<juegosAutoInc, amigosAutoInc, files, now, unlinks, errlog, poolVars, clientVars>>

\* Mutant of DeleteFriendsQuery: the handler does not look at affectedRows.
DeleteFriendsQueryAlwaysSuccess(r) ==
    /\ reqs[r].op = "deleteFriends" /\ reqs[r].pc = "query"
    /\ \/ /\ reqs' = [reqs EXCEPT ![r] = StoreFault(@)]
          /\ UNCHANGED amigos
       \/ /\ amigos' = DeleteRow(amigos, reqs[r].id)
          /\ reqs' = [reqs EXCEPT ![r] =
                        Answered(Ran(@), [status |-> 200,
                                          message |-> "Amigo eliminado correctamente."])]
    /\ UNCHANGED <<juegos, juegosAutoInc, amigosAutoInc, files,
                   now, unlinks, errlog, poolVars, clientVars>>

DeleteFriendsQuery(r) ==
    /\ reqs[r].op = "deleteFriends" /\ reqs[r].pc = "query"
    /\ \/ /\ reqs' = [reqs EXCEPT ![r] = StoreFault(@)]
          /\ UNCHANGED amigos
       \/ /\ amigos' = DeleteRow(amigos, reqs[r].id)
          /\ IF AffectedRows(amigos, reqs[r].id) > 0
             THEN reqs' = [reqs EXCEPT ![r] =
                             Answered(Ran(@), [status |-> 200,
                                               message |-> "Amigo eliminado correctamente."])]
             ELSE reqs' = [reqs EXCEPT ![r] =
                             Answered(Ran(@), [status |-> 404, error |-> "Amigo no encontrado."])]
    /\ UNCHANGED <<juegos, juegosAutoInc, amigosAutoInc, files,
                   now, unlinks, errlog, poolVars, clientVars>>

PutFriends(r, id, body) ==
    /\ Accepts(r)
    /\ IF NombreMissing(body)
       THEN reqs' = [reqs EXCEPT ![r] =
                       Answered(Request("putFriends", "query", id, body),
                                [status |-> 400, error |-> "El nombre es requerido."])]
       ELSE reqs' = [reqs EXCEPT ![r] = Request("putFriends", "query", id, body)]
    /\ UNCHANGED <<juegos, juegosAutoInc, amigos, amigosAutoInc, files,
                   now, unlinks, errlog, poolVars, clientVars>>

PutFriendsQuery(r) ==
    /\ reqs[r].op = "putFriends" /\ reqs[r].pc = "query"
    /\ \/ /\ reqs' = [reqs EXCEPT ![r] = StoreFault(@)]
          /\ UNCHANGED amigos
       \/ /\ amigos' = UpdateNombre(amigos, reqs[r].id, reqs[r].body.nombre)
          /\ IF AffectedRows(amigos, reqs[r].id) > 0
             THEN reqs' = [reqs EXCEPT ![r] =
                             Answered(Ran(@), [status |-> 200,
                                               message |-> "Amigo actualizado correctamente."])]
             ELSE reqs' = [reqs EXCEPT ![r] =
                             Answered(Ran(@), [status |-> 404, error |-> "Amigo no encontrado."])]
    /\ UNCHANGED <<juegos, juegosAutoInc, amigosAutoInc, files,
                   now, unlinks, errlog, poolVars, clientVars>>

(***************************************************************************)
(* The connection pool of mysql.createPool.  Every db.query checks a       *)
(* connection out of the pool, runs its statement on it and returns it.    *)
(* The options are those of server.js; the pool itself is the driver's,    *)
(* and is modelled as a bounded pool with first-in, first-out waiters.     *)
(***************************************************************************)
\* Mutant of WaitForConnections: the option is switched off.
WaitForConnectionsOff == FALSE

\* connectionLimit, waitForConnections and queueLimit of createPool
ConnectionLimit == 10
WaitForConnections == TRUE
QueueLimit == 0

\* The db.query calls that may be in progress at a time: enough to hold
\* every connection and to wait.
PoolQueries == 1..(ConnectionLimit + MaxWaiting)

\* The queries waiting for a connection.
Waiting == {waiters[i] : i \in DOMAIN waiters}

\* A query asks for a connection: it takes one if fewer than the limit are
\* checked out; otherwise it waits at the end of the queue, unless the pool
\* does not let queries wait or the queue has reached its limit (0: none).
Checkout(q) ==
    /\ q \notin checkedOut \cup Waiting
    /\ IF Cardinality(checkedOut) < ConnectionLimit
       THEN checkedOut' = checkedOut \cup {q} /\ UNCHANGED <<waiters, refused>>
       ELSE IF ~WaitForConnections \/ (QueueLimit > 0 /\ Len(waiters) >= QueueLimit)
            THEN refused' = refused \cup {q} /\ UNCHANGED <<checkedOut, waiters>>
            ELSE waiters' = Append(waiters, q) /\ UNCHANGED <<checkedOut, refused>>
    /\ UNCHANGED <<juegos, juegosAutoInc, amigos, amigosAutoInc, files, now, reqs,
                   unlinks, errlog, clientVars>>

\* A query returns its connection: the oldest waiter, if any, takes it.
Return(q) ==
    /\ q \in checkedOut
    /\ IF waiters = <<>>
       THEN checkedOut' = checkedOut \ {q} /\ UNCHANGED waiters
       ELSE /\ checkedOut' = (checkedOut \ {q}) \cup {Head(waiters)}
            /\ waiters' = Tail(waiters)
    /\ UNCHANGED <<juegos, juegosAutoInc, amigos, amigosAutoInc, files, now, reqs,
                   unlinks, errlog, refused, clientVars>>

(***************************************************************************)
(* The browser client: GamesPanel and AddGameForm.  A handler of the       *)
(* client that awaits a fetch is a call on a connection: the call holds    *)
(* what the handler's closure holds (the games and the view of the render  *)
(* that created the handler, and its arguments).  Starting a handler opens *)
(* the connection; the server receives the request of the call with the    *)
(* handler of its route; once the request is answered the continuation of  *)
(* the call runs and the connection is closed.  games, loading, error and  *)
(* isSubmitting are the state of the GamesPanel and the AddGameForm that   *)
(* are mounted, and have their initial values while none is.  A call whose *)
(* panel has been unmounted goes on, but the state setters of its          *)
(* continuation have no effect.  Of FriendsPanel only the load of its      *)
(* first effect is part of the model.                                      *)
(***************************************************************************)
\* response.ok
Ok(res) == res.status \in 200..299

\* A call can start on connection r.
Free(r) == calls[r] = NoCall /\ Accepts(r)

\* The call of connection r awaits a fetch the server has not received.
Sent(r, handler) == calls[r].handler = handler /\ reqs[r].pc = "idle"

\* The fetch of the call of connection r has been answered.
Fetched(r, handler) == calls[r].handler = handler /\ reqs[r].pc = "done"

\* The fetch the call of connection r awaits has settled: it has been
\* answered, or it rejects because the server was not reached.  The
\* statement after the await runs, or the catch block.
Settled(r, handler) == Fetched(r, handler) \/ Sent(r, handler)

\* The fetch of connection r resolved with a response that is ok.
ResponseOk(r) == reqs[r].pc = "done" /\ Ok(reqs[r].res)

\* games.filter(game => game.id !== gameId)
WithoutGame(list, gameId) == SelectSeq(list, LAMBDA game : game.id # gameId)

\* games.map(game => game.id === gameId ? { ...game, [column]: value } : game)
WithColumn(list, gameId, column, value) ==
    [i \in DOMAIN list |->
        IF list[i].id = gameId THEN [list[i] EXCEPT ![column] = value] ELSE list[i]]

\* The call belongs to a panel that is mounted: the state setters of its
\* continuation have an effect.
Mounted(call) == call # NoCall /\ call.mounted

\* The call once its panel has been unmounted.
Unmount(call) == IF call = NoCall THEN call ELSE [call EXCEPT !.mounted = FALSE]

\* GamesPanel is mounted: App shows it, and it is past its first effect.
\* Before that loading has its initial value and no loadGames of the panel
\* has been called (each sets loading to false when it ends).
PanelMounted ==
    /\ view # "friends"
    /\ ~(loading /\ \A r \in Reqs : ~(Mounted(calls[r]) /\ calls[r].handler = "loadGames"))

\* The cards are rendered when !loading && !error (and the search term
\* matches, which the empty one does).
CardShown(i) == ~loading /\ error = "null" /\ i \in DOMAIN games

\* loadGames called by the effect of [view]: when a GamesPanel is mounted
\* (when the page is loaded, with the view of App, and when setView leaves
\* the friends for the view v), and when setView changes the view of the
\* mounted panel to v.  Leaving the friends unmounts FriendsPanel.
LoadGames(r, v) ==
    /\ Free(r)
    /\ IF PanelMounted THEN v # view ELSE (view = "friends" \/ v = view)
    /\ view' = v
    /\ loading' = TRUE
    /\ error' = "null"
    /\ calls' = [q \in Reqs |->
                    IF q = r THEN [handler |-> "loadGames", view |-> v, mounted |-> TRUE]
                    ELSE IF PanelMounted THEN calls[q] ELSE Unmount(calls[q])]
    /\ reqs' = [reqs EXCEPT ![r] = Idle]
    /\ UNCHANGED <<juegos, juegosAutoInc, amigos, amigosAutoInc, files, now, unlinks, errlog,
                   poolVars, games, isSubmitting>>

LoadGamesFetch(r) ==
    /\ Sent(r, "loadGames")
    /\ IF calls[r].view = "favorites" THEN GetFavorites(r) ELSE GetGames(r)

\* loadGames after its await: setGames of the data of an answer that is
\* ok; catch, of a rejected fetch as of the throw, sets the error; finally.
LoadGamesResponse(r) ==
    /\ Settled(r, "loadGames")
    /\ IF ~Mounted(calls[r]) THEN UNCHANGED <<games, error, loading>>
       ELSE /\ IF ResponseOk(r)
               THEN games' = reqs[r].res.data /\ UNCHANGED error
               ELSE error' = "No se pudieron cargar los juegos." /\ UNCHANGED games
            /\ loading' = FALSE
    /\ calls' = [calls EXCEPT ![r] = NoCall]
    /\ reqs' = [reqs EXCEPT ![r] = Idle]
    /\ UNCHANGED <<juegos, juegosAutoInc, amigos, amigosAutoInc, files, now, unlinks, errlog,
                   poolVars, view, isSubmitting>>

\* setView('friends'): App renders FriendsPanel in place of GamesPanel.
\* GamesPanel and its form are unmounted, their state is gone (the next
\* ones start with the initial state), and the effect of FriendsPanel
\* calls loadFriends.
ShowFriends(r) ==
    /\ PanelMounted /\ Free(r)
    /\ view' = "friends"
    /\ games' = <<>>
    /\ loading' = TRUE
    /\ error' = "null"
    /\ isSubmitting' = FALSE
    /\ calls' = [q \in Reqs |->
                    IF q = r THEN [handler |-> "loadFriends", mounted |-> TRUE]
                    ELSE Unmount(calls[q])]
    /\ reqs' = [reqs EXCEPT ![r] = Idle]
    /\ UNCHANGED <<juegos, juegosAutoInc, amigos, amigosAutoInc, files, now, unlinks, errlog,
                   poolVars>>

LoadFriendsFetch(r) ==
    /\ Sent(r, "loadFriends")
    /\ GetFriends(r)

\* The continuation of loadFriends, after an answer as after a rejected
\* fetch (catch, finally), sets state of FriendsPanel only.
LoadFriendsResponse(r) ==
    /\ Settled(r, "loadFriends")
    /\ calls' = [calls EXCEPT ![r] = NoCall]
    /\ reqs' = [reqs EXCEPT ![r] = Idle]
    /\ UNCHANGED <<juegos, juegosAutoInc, amigos, amigosAutoInc, files, now, unlinks, errlog,
                   poolVars, view, games, isSubmitting, loading, error>>

\* The buttons of the card of games[i].
HandleToggleFavorite(r, i) ==
    /\ Free(r) /\ CardShown(i)
    /\ calls' = [calls EXCEPT ![r] =
                    [handler |-> "handleToggleFavorite", mounted |-> TRUE, games |-> games,
                     view |-> view,
                     gameId |-> games[i].id,
                     newFavoriteStatus |-> NewFavoriteStatus(games[i])]]
    /\ reqs' = [reqs EXCEPT ![r] = Idle]
    /\ UNCHANGED <<juegos, juegosAutoInc, amigos, amigosAutoInc, files, now, unlinks, errlog,
                   poolVars, view, games, isSubmitting, loading, error>>

HandleToggleFavoriteFetch(r) ==
    /\ Sent(r, "handleToggleFavorite")
    /\ PutFavorite(r, calls[r].gameId, [favorito |-> calls[r].newFavoriteStatus])

\* handleToggleFavorite after its await: setGames on an answer that is ok;
\* another answer and a rejected fetch (catch) are logged only.
HandleToggleFavoriteResponse(r) ==
    /\ Settled(r, "handleToggleFavorite")
    /\ games' = IF ~Mounted(calls[r]) \/ ~ResponseOk(r) THEN games
                ELSE IF calls[r].view = "favorites" /\ ~calls[r].newFavoriteStatus
                     THEN WithoutGame(calls[r].games, calls[r].gameId)
                     ELSE WithColumn(calls[r].games, calls[r].gameId, "favorito",
                                     IF calls[r].newFavoriteStatus THEN 1 ELSE 0)
    /\ calls' = [calls EXCEPT ![r] = NoCall]
    /\ reqs' = [reqs EXCEPT ![r] = Idle]
    /\ UNCHANGED <<juegos, juegosAutoInc, amigos, amigosAutoInc, files, now, unlinks, errlog,
                   poolVars, view, isSubmitting, loading, error>>

HandleDeleteGame(r, i) ==
    /\ Free(r) /\ CardShown(i)
    /\ calls' = [calls EXCEPT ![r] =
                    [handler |-> "handleDeleteGame", mounted |-> TRUE, games |-> games,
                     gameId |-> games[i].id]]
    /\ reqs' = [reqs EXCEPT ![r] = Idle]
    /\ UNCHANGED <<juegos, juegosAutoInc, amigos, amigosAutoInc, files, now, unlinks, errlog,
                   poolVars, view, games, isSubmitting, loading, error>>

HandleDeleteGameFetch(r) ==
    /\ Sent(r, "handleDeleteGame")
    /\ DeleteGames(r, calls[r].gameId)

\* handleDeleteGame after its await: setGames on an answer that is ok;
\* another answer throws, and catch, also of a rejected fetch, alerts.
HandleDeleteGameResponse(r) ==
    /\ Settled(r, "handleDeleteGame")
    /\ games' = IF Mounted(calls[r]) /\ ResponseOk(r)
                THEN WithoutGame(calls[r].games, calls[r].gameId)
                ELSE games
    /\ calls' = [calls EXCEPT ![r] = NoCall]
    /\ reqs' = [reqs EXCEPT ![r] = Idle]
    /\ UNCHANGED <<juegos, juegosAutoInc, amigos, amigosAutoInc, files, now, unlinks, errlog,
                   poolVars, view, isSubmitting, loading, error>>

HandleUpdateGame(r, i, newName) ==
    /\ Free(r) /\ CardShown(i)
    /\ newName \notin {"", " "}
    /\ calls' = [calls EXCEPT ![r] =
                    [handler |-> "handleUpdateGame", mounted |-> TRUE, games |-> games,
                     gameId |-> games[i].id,
                     newName |-> newName]]
    /\ reqs' = [reqs EXCEPT ![r] = Idle]
    /\ UNCHANGED <<juegos, juegosAutoInc, amigos, amigosAutoInc, files, now, unlinks, errlog,
                   poolVars, view, games, isSubmitting, loading, error>>

HandleUpdateGameFetch(r) ==
    /\ Sent(r, "handleUpdateGame")
    /\ PutGames(r, calls[r].gameId, [nombre |-> calls[r].newName])

\* handleUpdateGame after its await: setGames on an answer that is ok;
\* another answer throws, and catch, also of a rejected fetch, alerts.
HandleUpdateGameResponse(r) ==
    /\ Settled(r, "handleUpdateGame")
    /\ games' = IF Mounted(calls[r]) /\ ResponseOk(r)
                THEN WithColumn(calls[r].games, calls[r].gameId, "nombre", calls[r].newName)
                ELSE games
    /\ calls' = [calls EXCEPT ![r] = NoCall]
    /\ reqs' = [reqs EXCEPT ![r] = Idle]
    /\ UNCHANGED <<juegos, juegosAutoInc, amigos, amigosAutoInc, files, now, unlinks, errlog,
                   poolVars, view, isSubmitting, loading, error>>

(***************************************************************************)
(* AddGameForm.handleSubmit.  The form is rendered by GamesPanel; its      *)
(* submit button is disabled while isSubmitting holds.  image is the       *)
(* original name of the chosen file, or <<>> when the file chosen is       *)
(* empty.  The handler awaits two fetches, the upload and the create; a    *)
(* fetch rejects when the server is not reached.  The call holds the view  *)
(* of the render in which the form was submitted, which is the view of the *)
(* onGameAdded that render passed to the form.                             *)
(***************************************************************************)
\* The submits in flight whose create has not been answered.
PendingSubmits ==
    Cardinality({q \in Reqs : /\ calls[q].handler = "handleSubmit"
                              /\ ~(calls[q].pc = "create" /\ reqs[q].pc = "done")})

HandleSubmit(r, nombre, image) ==
    /\ PanelMounted /\ ~isSubmitting /\ Free(r)
    /\ juegosAutoInc + PendingSubmits <= MaxJuegos
    /\ IF nombre = "" \/ image = <<>>
       THEN isSubmitting' = FALSE /\ UNCHANGED <<calls, reqs>>
       ELSE /\ isSubmitting' = TRUE
            /\ calls' = [calls EXCEPT ![r] =
                            [handler |-> "handleSubmit", mounted |-> TRUE, pc |-> "upload",
                             nombre |-> nombre, image |-> image, imageUrl |-> <<>>,
                             view |-> view]]
            /\ reqs' = [reqs EXCEPT ![r] = Idle]
    /\ UNCHANGED <<juegos, juegosAutoInc, amigos, amigosAutoInc, files, now, unlinks, errlog,
                   poolVars, view, games, loading, error>>

HandleSubmitUpload(r) ==
    /\ Sent(r, "handleSubmit") /\ calls[r].pc = "upload"
    /\ \/ \E random \in 0..MaxRand : PostUpload(r, calls[r].image, random)
       \/ PostUploadFault(r, calls[r].image)

\* Mutant of HandleSubmitUploaded: uploadResponse.ok is not checked, the
\* create is sent after any answer of the upload.
HandleSubmitUploadedNoOkCheck(r) ==
    /\ Fetched(r, "handleSubmit") /\ calls[r].pc = "upload"
    /\ calls' = [calls EXCEPT ![r].pc = "create",
                              ![r].imageUrl = IF Ok(reqs[r].res) THEN reqs[r].res.imageUrl
                                              ELSE <<"undefined">>]
    /\ reqs' = [reqs EXCEPT ![r] = Idle]
    /\ UNCHANGED <<juegos, juegosAutoInc, amigos, amigosAutoInc, files, now, unlinks, errlog,
                   poolVars, view, games, isSubmitting, loading, error>>

\* The upload is answered: an answer that is not ok throws (catch, then
\* finally); of an answer that is ok the imageUrl is read.
HandleSubmitUploaded(r) ==
    /\ Fetched(r, "handleSubmit") /\ calls[r].pc = "upload"
    /\ IF Ok(reqs[r].res)
       THEN /\ calls' = [calls EXCEPT ![r].pc = "create", ![r].imageUrl = reqs[r].res.imageUrl]
            /\ UNCHANGED isSubmitting
       ELSE /\ calls' = [calls EXCEPT ![r] = NoCall]
            /\ isSubmitting' = IF Mounted(calls[r]) THEN FALSE ELSE isSubmitting
    /\ reqs' = [reqs EXCEPT ![r] = Idle]
    /\ UNCHANGED <<juegos, juegosAutoInc, amigos, amigosAutoInc, files, now, unlinks, errlog,
                   poolVars, view, games, loading, error>>

HandleSubmitCreate(r) ==
    /\ Sent(r, "handleSubmit") /\ calls[r].pc = "create"
    /\ PostGames(r, [nombre |-> calls[r].nombre, imagen_url |-> calls[r].imageUrl])

\* The create is answered.  After a success the form is reset and
\* onGameAdded, the handleGameAdded of the render in which the form was
\* submitted, calls the loadGames of that render, which loads the view of
\* that render.  In either case finally resets isSubmitting.
HandleSubmitCreated(r) ==
    /\ Fetched(r, "handleSubmit") /\ calls[r].pc = "create"
    /\ IF Ok(reqs[r].res)
       THEN /\ calls' = [calls EXCEPT ![r] =
                            [handler |-> "loadGames", view |-> calls[r].view,
                             mounted |-> calls[r].mounted]]
            /\ loading' = IF Mounted(calls[r]) THEN TRUE ELSE loading
            /\ error' = IF Mounted(calls[r]) THEN "null" ELSE error
       ELSE /\ calls' = [calls EXCEPT ![r] = NoCall]
            /\ UNCHANGED <<loading, error>>
    /\ isSubmitting' = IF Mounted(calls[r]) THEN FALSE ELSE isSubmitting
    /\ reqs' = [reqs EXCEPT ![r] = Idle]
    /\ UNCHANGED <<juegos, juegosAutoInc, amigos, amigosAutoInc, files, now, unlinks, errlog,
                   poolVars, view, games>>

\* The awaited fetch rejects: catch, then finally.
HandleSubmitRejected(r) ==
    /\ Sent(r, "handleSubmit")
    /\ calls' = [calls EXCEPT ![r] = NoCall]
    /\ isSubmitting' = IF Mounted(calls[r]) THEN FALSE ELSE isSubmitting
    /\ UNCHANGED <<juegos, juegosAutoInc, amigos, amigosAutoInc, files, now, reqs, unlinks,
                   errlog, poolVars, view, games, loading, error>>

(***************************************************************************)
(* Specifications.  Spec is the whole server, under any client; the pool   *)
(* and the client's handlers are composed with the server in the           *)
(* specifications of their own below.                                      *)
(***************************************************************************)
Next ==
    \/ Tick
    \/ \E r \in Reqs : GetGames(r)
    \/ \E r \in Reqs : GetGamesQuery(r)
    \/ \E r \in Reqs : GetFavorites(r)
    \/ \E r \in Reqs : GetFavoritesQuery(r)
    \/ \E r \in Reqs, id \in GameIds, body \in FavoritoBodies : PutFavorite(r, id, body)
    \/ \E r \in Reqs : PutFavoriteQuery(r)
    \/ \E r \in Reqs : PostUploadNoFile(r)
    \/ \E r \in Reqs, originalname \in OriginalNames, random \in 0..MaxRand :
          PostUpload(r, originalname, random)
    \/ \E r \in Reqs, originalname \in OriginalNames : PostUploadFault(r, originalname)
    \/ \E r \in Reqs : PostUploadStored(r)
    \/ \E r \in Reqs, body \in GameBodies : PostGames(r, body)
    \/ \E r \in Reqs : PostGamesQuery(r)
    \/ \E r \in Reqs, id \in GameIds : DeleteGames(r, id)
    \/ \E r \in Reqs : DeleteGamesSelect(r)
    \/ \E r \in Reqs : DeleteGamesDelete(r)
    \/ \E u \in BagToSet(unlinks) : UnlinkCallback(u)
    \/ \E r \in Reqs, id \in GameIds, body \in NombreBodies : PutGames(r, id, body)
    \/ \E r \in Reqs : PutGamesQuery(r)
    \/ \E r \in Reqs : GetFriends(r)
    \/ \E r \in Reqs : GetFriendsQuery(r)
    \/ \E r \in Reqs, body \in NombreBodies : PostFriends(r, body)
    \/ \E r \in Reqs : PostFriendsQuery(r)
    \/ \E r \in Reqs, id \in FriendIds : DeleteFriends(r, id)
    \/ \E r \in Reqs : DeleteFriendsQuery(r)
    \/ \E r \in Reqs, id \in FriendIds, body \in NombreBodies : PutFriends(r, id, body)
    \/ \E r \in Reqs : PutFriendsQuery(r)

Spec == Init /\ [][Next]_vars

(***************************************************************************)
(* SpecDelete: the life of a game and of its image file.  Files are        *)
(* uploaded, games are created on them, on a path no upload returned and   *)
(* on a path outside public/, and games are deleted, with every            *)
(* interleaving of the handlers' statements and of the unlink callbacks.   *)
(***************************************************************************)
NextDelete ==
    \/ \E r \in Reqs : PostUpload(r, <<"a", ".", "p">>, 0)
    \/ \E r \in Reqs : PostUploadStored(r)
    \/ \E r \in Reqs, u \in ClientUrls \ {<<>>} :
          PostGames(r, [nombre |-> "a", imagen_url |-> u])
    \/ \E r \in Reqs : PostGamesQuery(r)
    \/ \E r \in Reqs, id \in GameIds : DeleteGames(r, id)
    \/ \E r \in Reqs : DeleteGamesSelect(r)
    \/ \E r \in Reqs : DeleteGamesDelete(r)
    \/ \E u \in BagToSet(unlinks) : UnlinkCallback(u)

SpecDelete == Init /\ [][NextDelete]_vars

(***************************************************************************)
(* SpecCreate: creating and listing games.  Two names and two image paths  *)
(* are sent, so that a second create can repeat the first one's values,    *)
(* and a body with no field; lists run between and after the creates.      *)
(***************************************************************************)
CreateBodies ==
    {<<>>} \cup {[nombre |-> n, imagen_url |-> u] :
                    n \in {"a", "b"}, u \in {<<"img", "x.p">>, <<"..", "server.js">>}}

NextCreate ==
    \/ \E r \in Reqs, body \in CreateBodies : PostGames(r, body)
    \/ \E r \in Reqs : PostGamesQuery(r)
    \/ \E r \in Reqs : GetGames(r)
    \/ \E r \in Reqs : GetGamesQuery(r)

SpecCreate == Init /\ [][NextCreate]_vars

(***************************************************************************)
(* SpecFavorite: marking games as favorite.  Games are created, every body *)
(* of set-favorite is sent for every id, with or without a row, and the    *)
(* favorites are listed; games are deleted, so that an id loses its row.   *)
(***************************************************************************)
NextFavorite ==
    \/ \E r \in Reqs : PostGames(r, [nombre |-> "a", imagen_url |-> <<"img", "x.p">>])
    \/ \E r \in Reqs : PostGamesQuery(r)
    \/ \E r \in Reqs, id \in GameIds, body \in FavoritoBodies : PutFavorite(r, id, body)
    \/ \E r \in Reqs : PutFavoriteQuery(r)
    \/ \E r \in Reqs : GetFavorites(r)
    \/ \E r \in Reqs : GetFavoritesQuery(r)
    \/ \E r \in Reqs, id \in GameIds : DeleteGames(r, id)
    \/ \E r \in Reqs : DeleteGamesSelect(r)
    \/ \E r \in Reqs : DeleteGamesDelete(r)
    \/ \E u \in BagToSet(unlinks) : UnlinkCallback(u)

SpecFavorite == Init /\ [][NextFavorite]_vars

(***************************************************************************)
(* SpecUpload: the upload endpoint alone.  Files named "a.p" are uploaded, *)
(* two at a time, within one millisecond and across milliseconds, with     *)
(* every value of the random suffix; so are files named "b", which have no *)
(* extension, with one value of the suffix.                                *)
(***************************************************************************)
NextUpload ==
    \/ Tick
    \/ \E r \in Reqs : PostUploadNoFile(r)
    \/ \E r \in Reqs, random \in 0..MaxRand : PostUpload(r, <<"a", ".", "p">>, random)
    \/ \E r \in Reqs : PostUpload(r, <<"b">>, 0)
    \/ \E r \in Reqs : PostUploadStored(r)

SpecUpload == Init /\ [][NextUpload]_vars

(***************************************************************************)
(* SpecValidation: handlers that validate a body (create-game,             *)
(* update-game-name and create-friend), with every body: a field absent,   *)
(* empty, blank or filled.                                                 *)
(***************************************************************************)
ValidationNombres == {[nombre |-> n] : n \in {"", " ", "a"}} \cup {<<>>}

ValidationBodies ==
    ValidationNombres
    \cup {[imagen_url |-> <<"img", "x.p">>]}
    \cup {[nombre |-> n, imagen_url |-> u] : n \in {"", " ", "a"}, u \in {<<>>, <<"img", "x.p">>}}

NextValidation ==
    \/ \E r \in Reqs, body \in ValidationBodies : PostGames(r, body)
    \/ \E r \in Reqs : PostGamesQuery(r)
    \/ \E r \in Reqs, id \in GameIds, body \in ValidationNombres : PutGames(r, id, body)
    \/ \E r \in Reqs : PutGamesQuery(r)
    \/ \E r \in Reqs, body \in ValidationNombres : PostFriends(r, body)
    \/ \E r \in Reqs : PostFriendsQuery(r)

SpecValidation == Init /\ [][NextValidation]_vars

(***************************************************************************)
(* SpecFaults: every handler that runs a statement, each with one valid    *)
(* request, every statement running or faulting.                           *)
(***************************************************************************)
NextFaults ==
    \/ \E r \in Reqs : GetGames(r)
    \/ \E r \in Reqs : GetGamesQuery(r)
    \/ \E r \in Reqs : GetFavorites(r)
    \/ \E r \in Reqs : GetFavoritesQuery(r)
    \/ \E r \in Reqs : PutFavorite(r, 1, [favorito |-> TRUE])
    \/ \E r \in Reqs : PutFavoriteQuery(r)
    \/ \E r \in Reqs : PostGames(r, [nombre |-> "a", imagen_url |-> <<"img", "x.p">>])
    \/ \E r \in Reqs : PostGamesQuery(r)
    \/ \E r \in Reqs : DeleteGames(r, 1)
    \/ \E r \in Reqs : DeleteGamesSelect(r)
    \/ \E r \in Reqs : DeleteGamesDelete(r)
    \/ \E u \in BagToSet(unlinks) : UnlinkCallback(u)
    \/ \E r \in Reqs : PutGames(r, 1, [nombre |-> "b"])
    \/ \E r \in Reqs : PutGamesQuery(r)
    \/ \E r \in Reqs : GetFriends(r)
    \/ \E r \in Reqs : GetFriendsQuery(r)
    \/ \E r \in Reqs : PostFriends(r, [nombre |-> "a"])
    \/ \E r \in Reqs : PostFriendsQuery(r)
    \/ \E r \in Reqs : DeleteFriends(r, 1)
    \/ \E r \in Reqs : DeleteFriendsQuery(r)
    \/ \E r \in Reqs : PutFriends(r, 1, [nombre |-> "b"])
    \/ \E r \in Reqs : PutFriendsQuery(r)

SpecFaults == Init /\ [][NextFaults]_vars

(***************************************************************************)
(* SpecRename: the update-name handlers of games and friends.  Rows are    *)
(* created with nombre "a", games are marked as favorite, and every id,    *)
(* with or without a row, is renamed to "b".                               *)
(***************************************************************************)
NextRename ==
    \/ \E r \in Reqs : PostGames(r, [nombre |-> "a", imagen_url |-> <<"img", "x.p">>])
    \/ \E r \in Reqs : PostGamesQuery(r)
    \/ \E r \in Reqs, id \in GameIds : PutFavorite(r, id, [favorito |-> TRUE])
    \/ \E r \in Reqs : PutFavoriteQuery(r)
    \/ \E r \in Reqs, id \in GameIds : PutGames(r, id, [nombre |-> "b"])
    \/ \E r \in Reqs : PutGamesQuery(r)
    \/ \E r \in Reqs : PostFriends(r, [nombre |-> "a"])
    \/ \E r \in Reqs : PostFriendsQuery(r)
    \/ \E r \in Reqs, id \in FriendIds : PutFriends(r, id, [nombre |-> "b"])
    \/ \E r \in Reqs : PutFriendsQuery(r)

SpecRename == Init /\ [][NextRename]_vars

(***************************************************************************)
(* SpecImmutable: everything that happens to a game after its creation.    *)
(* A file is uploaded, games are created on it and on another path,        *)
(* renamed, marked and deleted, and friends are created.                   *)
(***************************************************************************)
NextImmutable ==
    \/ \E r \in Reqs : PostUpload(r, <<"a", ".", "p">>, 0)
    \/ \E r \in Reqs : PostUploadStored(r)
    \/ \E r \in Reqs : PostGames(r, [nombre |-> "a", imagen_url |-> <<"img", "x.p">>])
    \/ \E r \in Reqs : PostGamesQuery(r)
    \/ \E r \in Reqs : PutGames(r, 1, [nombre |-> "b"])
    \/ \E r \in Reqs : PutGamesQuery(r)
    \/ \E r \in Reqs : PutFavorite(r, 1, [favorito |-> TRUE])
    \/ \E r \in Reqs : PutFavoriteQuery(r)
    \/ \E r \in Reqs, id \in GameIds : DeleteGames(r, id)
    \/ \E r \in Reqs : DeleteGamesSelect(r)
    \/ \E r \in Reqs : DeleteGamesDelete(r)
    \/ \E u \in BagToSet(unlinks) : UnlinkCallback(u)
    \/ \E r \in Reqs : PostFriends(r, [nombre |-> "a"])
    \/ \E r \in Reqs : PostFriendsQuery(r)

SpecImmutable == Init /\ [][NextImmutable]_vars

(***************************************************************************)
(* SpecList: the two lists of games.  Games named "a" and "b" are created, *)
(* in any order and also with one name twice, marked as favorite, and both *)
(* lists are requested.                                                    *)
(***************************************************************************)
NextList ==
    \/ \E r \in Reqs, n \in {"a", "b"} :
          PostGames(r, [nombre |-> n, imagen_url |-> <<"img", "x.p">>])
    \/ \E r \in Reqs : PostGamesQuery(r)
    \/ \E r \in Reqs, id \in GameIds : PutFavorite(r, id, [favorito |-> TRUE])
    \/ \E r \in Reqs : PutFavoriteQuery(r)
    \/ \E r \in Reqs : GetGames(r)
    \/ \E r \in Reqs : GetGamesQuery(r)
    \/ \E r \in Reqs : GetFavorites(r)
    \/ \E r \in Reqs : GetFavoritesQuery(r)

SpecList == Init /\ [][NextList]_vars

(***************************************************************************)
(* SpecIds: the ids of the rows.  Games and friends are created, renamed,  *)
(* marked, deleted and listed, so that ids are given while earlier ids     *)
(* have lost their rows.                                                   *)
(***************************************************************************)
NextIds ==
    \/ \E r \in Reqs : PostGames(r, [nombre |-> "a", imagen_url |-> <<"img", "x.p">>])
    \/ \E r \in Reqs : PostGamesQuery(r)
    \/ \E r \in Reqs : PutGames(r, 1, [nombre |-> "b"])
    \/ \E r \in Reqs : PutGamesQuery(r)
    \/ \E r \in Reqs : PutFavorite(r, 1, [favorito |-> TRUE])
    \/ \E r \in Reqs : PutFavoriteQuery(r)
    \/ \E r \in Reqs : DeleteGames(r, 1)
    \/ \E r \in Reqs : DeleteGamesSelect(r)
    \/ \E r \in Reqs : DeleteGamesDelete(r)
    \/ \E u \in BagToSet(unlinks) : UnlinkCallback(u)
    \/ \E r \in Reqs : GetGames(r)
    \/ \E r \in Reqs : GetGamesQuery(r)
    \/ \E r \in Reqs : PostFriends(r, [nombre |-> "a"])
    \/ \E r \in Reqs : PostFriendsQuery(r)
    \/ \E r \in Reqs : PutFriends(r, 1, [nombre |-> "b"])
    \/ \E r \in Reqs : PutFriendsQuery(r)
    \/ \E r \in Reqs : DeleteFriends(r, 1)
    \/ \E r \in Reqs : DeleteFriendsQuery(r)
    \/ \E r \in Reqs : GetFriends(r)
    \/ \E r \in Reqs : GetFriendsQuery(r)

SpecIds == Init /\ [][NextIds]_vars

(***************************************************************************)
(* SpecToggle: GamesPanel and the favorite button.  Games are created by   *)
(* another client of the API; the panel loads the list of all games and    *)
(* the user presses the favorite button of a card, also while an earlier   *)
(* press is still awaited, so that two requests for one game are in flight *)
(* together, with equal or with different values.  A fetch is answered     *)
(* or rejects.                                                             *)
(***************************************************************************)
NextToggle ==
    \/ \E r \in Reqs :
          calls[r] = NoCall /\ PostGames(r, [nombre |-> "a", imagen_url |-> <<"img", "x.p">>])
    \/ \E r \in Reqs : PostGamesQuery(r)
    \/ \E r \in Reqs : LoadGames(r, "all")
    \/ \E r \in Reqs : ShowFriends(r)
    \/ \E r \in Reqs : LoadFriendsFetch(r)
    \/ \E r \in Reqs : GetFriendsQuery(r)
    \/ \E r \in Reqs : LoadFriendsResponse(r)
    \/ \E r \in Reqs : LoadGamesFetch(r)
    \/ \E r \in Reqs : GetGamesQuery(r)
    \/ \E r \in Reqs : LoadGamesResponse(r)
    \/ \E r \in Reqs, i \in GameIds : HandleToggleFavorite(r, i)
    \/ \E r \in Reqs : HandleToggleFavoriteFetch(r)
    \/ \E r \in Reqs : PutFavoriteQuery(r)
    \/ \E r \in Reqs : HandleToggleFavoriteResponse(r)

SpecToggle == Init /\ [][NextToggle]_vars

(***************************************************************************)
(* SpecFriends: the friends.  Friends named "a" and "b" are created,       *)
(* listed and deleted, every id with or without a row.                     *)
(***************************************************************************)
NextFriends ==
    \/ \E r \in Reqs, n \in {"a", "b"} : PostFriends(r, [nombre |-> n])
    \/ \E r \in Reqs : PostFriendsQuery(r)
    \/ \E r \in Reqs : GetFriends(r)
    \/ \E r \in Reqs : GetFriendsQuery(r)
    \/ \E r \in Reqs, id \in FriendIds : DeleteFriends(r, id)
    \/ \E r \in Reqs : DeleteFriendsQuery(r)

SpecFriends == Init /\ [][NextFriends]_vars

(***************************************************************************)
(* SpecIndependent: the operations that write, on games and on friends.    *)
(* A file is uploaded; games and friends are created, renamed and deleted, *)
(* games are marked as favorite.                                           *)
(***************************************************************************)
NextIndependent ==
    \/ \E r \in Reqs : PostUpload(r, <<"a", ".", "p">>, 0)
    \/ \E r \in Reqs : PostUploadStored(r)
    \/ \E r \in Reqs : PostGames(r, [nombre |-> "a", imagen_url |-> <<"img", "x.p">>])
    \/ \E r \in Reqs : PostGamesQuery(r)
    \/ \E r \in Reqs : PutGames(r, 1, [nombre |-> "b"])
    \/ \E r \in Reqs : PutGamesQuery(r)
    \/ \E r \in Reqs : PutFavorite(r, 1, [favorito |-> TRUE])
    \/ \E r \in Reqs : PutFavoriteQuery(r)
    \/ \E r \in Reqs : DeleteGames(r, 2)
    \/ \E r \in Reqs : DeleteGamesSelect(r)
    \/ \E r \in Reqs : DeleteGamesDelete(r)
    \/ \E u \in BagToSet(unlinks) : UnlinkCallback(u)
    \/ \E r \in Reqs : PostFriends(r, [nombre |-> "a"])
    \/ \E r \in Reqs : PostFriendsQuery(r)
    \/ \E r \in Reqs : PutFriends(r, 1, [nombre |-> "b"])
    \/ \E r \in Reqs : PutFriendsQuery(r)
    \/ \E r \in Reqs : DeleteFriends(r, 1)
    \/ \E r \in Reqs : DeleteFriendsQuery(r)

SpecIndependent == Init /\ [][NextIndependent]_vars

(***************************************************************************)
(* SpecPool: the connection pool under more queries than connections.      *)
(***************************************************************************)
NextPool ==
    \/ \E q \in PoolQueries : Checkout(q)
    \/ \E q \in PoolQueries : Return(q)

SpecPool == Init /\ [][NextPool]_vars

(***************************************************************************)
(* SpecPanel: GamesPanel, with its form, against the server.  The user     *)
(* adds games with the form, switches between the two views, and presses   *)
(* the favorite button, renames and deletes the cards shown, also while an *)
(* earlier request is still awaited.  A fetch is answered, with success    *)
(* or failure, or rejects.                                                 *)
(***************************************************************************)
\* The games the user adds with the form.
MaxPanelGames == 1

NextPanel ==
    \/ \E r \in Reqs, v \in {"all", "favorites"} : LoadGames(r, v)
    \/ \E r \in Reqs : ShowFriends(r)
    \/ \E r \in Reqs : LoadFriendsFetch(r)
    \/ \E r \in Reqs : GetFriendsQuery(r)
    \/ \E r \in Reqs : LoadFriendsResponse(r)
    \/ \E r \in Reqs : LoadGamesFetch(r)
    \/ \E r \in Reqs : GetGamesQuery(r)
    \/ \E r \in Reqs : GetFavoritesQuery(r)
    \/ \E r \in Reqs : LoadGamesResponse(r)
    \/ \E r \in Reqs :
          /\ juegosAutoInc + PendingSubmits <= MaxPanelGames
          /\ HandleSubmit(r, "a", <<"a", ".", "p">>)
    \/ \E r \in Reqs : HandleSubmitUpload(r)
    \/ \E r \in Reqs : PostUploadStored(r)
    \/ \E r \in Reqs : HandleSubmitUploaded(r)
    \/ \E r \in Reqs : HandleSubmitCreate(r)
    \/ \E r \in Reqs : PostGamesQuery(r)
    \/ \E r \in Reqs : HandleSubmitCreated(r)
    \/ \E r \in Reqs : HandleSubmitRejected(r)
    \/ \E r \in Reqs, i \in GameIds : HandleToggleFavorite(r, i)
    \/ \E r \in Reqs : HandleToggleFavoriteFetch(r)
    \/ \E r \in Reqs : PutFavoriteQuery(r)
    \/ \E r \in Reqs : HandleToggleFavoriteResponse(r)
    \/ \E r \in Reqs, i \in GameIds : HandleDeleteGame(r, i)
    \/ \E r \in Reqs : HandleDeleteGameFetch(r)
    \/ \E r \in Reqs : DeleteGamesSelect(r)
    \/ \E r \in Reqs : DeleteGamesDelete(r)
    \/ \E u \in BagToSet(unlinks) : UnlinkCallback(u)
    \/ \E r \in Reqs : HandleDeleteGameResponse(r)
    \/ \E r \in Reqs, i \in GameIds : HandleUpdateGame(r, i, "b")
    \/ \E r \in Reqs : HandleUpdateGameFetch(r)
    \/ \E r \in Reqs : PutGamesQuery(r)
    \/ \E r \in Reqs : HandleUpdateGameResponse(r)

SpecPanel == Init /\ [][NextPanel]_vars

(***************************************************************************)
(* SpecSubmit: the add-game form against the server. The user switches     *)
(* between the friends view and the view of all games, so the panel and    *)
(* its form are unmounted and mounted again while submits are awaiting;    *)
(* the form is submitted with a file and with an empty one; every fetch is *)
(* answered or rejects, and the server stores the uploaded file or fails   *)
(* to; after a success the list is loaded again. The server, the network   *)
(* and the client's event loop keep running: a request that has been sent  *)
(* is received unless it rejects, an awaited statement runs and a          *)
(* continuation whose fetch is answered runs.                              *)
(***************************************************************************)
SubmitProgress(r) ==
    \/ HandleSubmitUpload(r)
    \/ PostUploadStored(r)
    \/ HandleSubmitUploaded(r)
    \/ HandleSubmitCreate(r)
    \/ PostGamesQuery(r)
    \/ HandleSubmitCreated(r)

NextSubmit ==
    \/ \E r \in Reqs : LoadGames(r, "all")
    \/ \E r \in Reqs : ShowFriends(r)
    \/ \E r \in Reqs : LoadFriendsFetch(r)
    \/ \E r \in Reqs : GetFriendsQuery(r)
    \/ \E r \in Reqs : LoadFriendsResponse(r)
    \/ \E r \in Reqs, nombre \in {"a"}, image \in {<<"a", ".", "p">>, <<>>} :
          HandleSubmit(r, nombre, image)
    \/ \E r \in Reqs : HandleSubmitUpload(r)
    \/ \E r \in Reqs : PostUploadStored(r)
    \/ \E r \in Reqs : HandleSubmitUploaded(r)
    \/ \E r \in Reqs : HandleSubmitCreate(r)
    \/ \E r \in Reqs : PostGamesQuery(r)
    \/ \E r \in Reqs : HandleSubmitCreated(r)
    \/ \E r \in Reqs : HandleSubmitRejected(r)
    \/ \E r \in Reqs : LoadGamesFetch(r)
    \/ \E r \in Reqs : GetGamesQuery(r)
    \/ \E r \in Reqs : LoadGamesResponse(r)

SpecSubmit ==
    Init /\ [][NextSubmit]_vars /\ \A r \in Reqs : WF_vars(SubmitProgress(r))

(***************************************************************************)
(* Vocabulary of the properties.                                           *)
(***************************************************************************)

\* In this step the handler `op` of connection r sends its response.
Answers(r, op) ==
    /\ reqs[r].op = op /\ reqs[r].pc \notin {"idle", "done"}
    /\ reqs'[r].op = op /\ reqs'[r].pc = "done"

\* In this step the handler `op` of connection r runs (it receives its
\* request or resumes after an await).
Runs(r, op) == reqs'[r] # reqs[r] /\ reqs'[r].op = op

\* In this step the callback of the fs.unlink call u runs.
CallbackOf(u) == CopiesIn(u, unlinks') < CopiesIn(u, unlinks)

\* The fs.unlink call the delete handler of connection r makes for a row.
UnlinkOf(r, id, imagen_url) == [path |-> ImagePath(imagen_url), by |-> r, id |-> id]

\* The ids of the rows of a query result.
IdsOf(results) == {results[i].id : i \in DOMAIN results}

\* C2: a delete-game request answered 200 was for an existing id, its row is
\* in no result of listGames afterwards and the unlink of its image file has
\* been started; the callback of an unlink leaves no file at its path; a
\* delete-game request answered 404 was for an id with no row, ran only its
\* lookup, and its answering step changes no row, no file and starts no
\* unlink.
C2_DeleteGame ==
    [][/\ \A r \in Reqs :
            /\ (Answers(r, "deleteGames") /\ reqs'[r].res.status = 200) =>
                  /\ reqs[r].id \in DOMAIN juegos
                  /\ \A results \in SelectAll(juegos') : reqs[r].id \notin IdsOf(results)
                  /\ CopiesIn(UnlinkOf(r, reqs[r].id, juegos[reqs[r].id].imagen_url), unlinks')
                        = 1 + CopiesIn(UnlinkOf(r, reqs[r].id, juegos[reqs[r].id].imagen_url), unlinks)
            /\ (Answers(r, "deleteGames") /\ reqs'[r].res.status = 404) =>
                  /\ reqs[r].id \notin DOMAIN juegos
                  /\ reqs'[r].queries = 1
                  /\ juegos' = juegos /\ files' = files /\ unlinks' = unlinks
       /\ \A u \in BagToSet(unlinks) : CallbackOf(u) => u.path \notin files'
      ]_vars

\* C2 witness: one delete was answered 200 and its unlink removed the file
\* (nothing was logged), and another delete was answered 404.
C2_Witness ==
    /\ \E r \in Reqs : reqs[r].op = "deleteGames" /\ reqs[r].pc = "done"
                        /\ reqs[r].res.status = 200
                        /\ reqs[r].gameResult[1].imagen_url = <<"img", "image-0-0.p">>
    /\ \E r \in Reqs : reqs[r].op = "deleteGames" /\ reqs[r].pc = "done"
                        /\ reqs[r].res.status = 404
    /\ unlinks = EmptyBag /\ errlog = {}
    /\ <<"app", "public", "img", "image-0-0.p">> \notin files

\* C8: no delete-game request has been answered while the fs.unlink it
\* started is still in flight.
C8_ResponseAfterUnlink ==
    \A r \in Reqs :
        (reqs[r].op = "deleteGames" /\ reqs[r].pc = "done") =>
            ~ \E u \in BagToSet(unlinks) : u.by = r /\ u.id = reqs[r].id

\* C9: lookup, then row deletion, then file deletion.  Every unlink in
\* flight is for a game whose row is gone; a file disappears only in the
\* callback of an unlink; the 200 is sent by the step after the DELETE, with
\* both statements run; and every other step of the delete handler (the 404
\* and the 500 of a faulting lookup or deletion included) starts no unlink
\* and leaves the files untouched.
C9_DeleteOrder ==
    [][/\ \A u \in BagToSet(unlinks') : u.id \notin DOMAIN juegos'
       /\ files' \subseteq files \/ \A u \in BagToSet(unlinks) : ~CallbackOf(u)
       /\ files \subseteq files' \/ \E u \in BagToSet(unlinks) :
                                        CallbackOf(u) /\ files' = files \ {u.path}
       /\ \A r \in Reqs :
            /\ (Answers(r, "deleteGames") /\ reqs'[r].res.status = 200) =>
                  reqs[r].pc = "delete" /\ reqs'[r].queries = 2
            /\ (Runs(r, "deleteGames") /\ reqs'[r].res.status # 200) =>
                  files' = files /\ unlinks' = unlinks
            /\ (Answers(r, "deleteGames") /\ reqs'[r].res.status \notin {200, 404}) =>
                  reqs'[r].res.status = 500 /\ juegos' = juegos
      ]_vars

\* C9 witness: the row of a game is gone, the unlink of its existing image
\* file is in flight, and another delete request got a 500.
C9_Witness ==
    /\ \E u \in BagToSet(unlinks) : u.path \in files /\ u.id \notin DOMAIN juegos
    /\ \E r \in Reqs : reqs[r].op = "deleteGames" /\ reqs[r].res.status = 500

\* C10: when the unlink of a deleted game's image fails, the callback only
\* logs: it changes no row, no response and no file; and the row of every
\* delete answered 200 stays deleted.
C10_BestEffortUnlink ==
    [][/\ \A u \in BagToSet(unlinks) :
            (CallbackOf(u) /\ u.path \notin files) =>
                /\ juegos' = juegos /\ reqs' = reqs /\ files' = files
                /\ errlog' = errlog \cup {u.path}
       /\ \A r \in Reqs :
            (reqs'[r].op = "deleteGames" /\ reqs'[r].pc = "done" /\ reqs'[r].res.status = 200) =>
                reqs'[r].id \notin DOMAIN juegos'
      ]_vars

\* C10 witness: a delete was answered 200, its row is gone and the unlink of
\* its image, a file that did not exist, has been logged as failed.
C10_Witness ==
    \E r \in Reqs :
        /\ reqs[r].op = "deleteGames" /\ reqs[r].pc = "done" /\ reqs[r].res.status = 200
        /\ reqs[r].id \notin DOMAIN juegos
        /\ ImagePath(reqs[r].gameResult[1].imagen_url) \in errlog

\* The rows of a query result that have this nombre and imagen_url.
Matching(results, nombre, imagen_url) ==
    {i \in DOMAIN results : results[i].nombre = nombre /\ results[i].imagen_url = imagen_url}

\* The rows of a query result that have this id.
WithId(results, id) == {i \in DOMAIN results : results[i].id = id}

\* A create-game request of connection r has been answered 201.
Created(r) == reqs[r].op = "postGames" /\ reqs[r].pc = "done" /\ reqs[r].res.status = 201

\* C1 as stated: after a successful create, listGames holds exactly one row
\* matching the nombre and imagen_url of the request, and it is no favorite.
\* Checked on the step that answers the create (every result the list can
\* return in the state it leaves) and on the step that answers a list while
\* another connection holds the response of a create (creates and lists are
\* the only requests of SpecCreate).
C1_ExactlyOneMatchingRow ==
    [][\A r \in Reqs :
        /\ (Answers(r, "postGames") /\ reqs'[r].res.status = 201) =>
              \A results \in SelectAll(juegos') :
                 /\ Cardinality(Matching(results, reqs[r].body.nombre, reqs[r].body.imagen_url)) = 1
                 /\ \A i \in Matching(results, reqs[r].body.nombre, reqs[r].body.imagen_url) :
                       results[i].favorito = 0
        /\ (Answers(r, "getGames") /\ reqs'[r].res.status = 200) =>
              \A c \in Reqs : Created(c) =>
                 /\ Cardinality(Matching(reqs'[r].res.data, reqs[c].body.nombre,
                                         reqs[c].body.imagen_url)) = 1
                 /\ \A i \in Matching(reqs'[r].res.data, reqs[c].body.nombre,
                                      reqs[c].body.imagen_url) :
                       reqs'[r].res.data[i].favorito = 0
      ]_vars

\* C1 as amended: a create-game request is answered 201 only with a
\* non-empty nombre and imagen_url, which the response repeats; after it,
\* listGames holds exactly one row with the id of the response, and that row
\* has the nombre and imagen_url of the request and favorito = 0.  (Other
\* rows may hold the same nombre and imagen_url.)  Checked on the step that
\* answers the create and on the step that answers a later list.
C1_CreatedRowListed ==
    [][\A r \in Reqs :
        /\ (Answers(r, "postGames") /\ reqs'[r].res.status = 201) =>
              /\ ~NombreMissing(reqs[r].body) /\ ~ImagenUrlMissing(reqs[r].body)
              /\ reqs'[r].res.nombre = reqs[r].body.nombre
              /\ reqs'[r].res.imagen_url = reqs[r].body.imagen_url
              /\ \A results \in SelectAll(juegos') :
                    /\ Cardinality(WithId(results, reqs'[r].res.id)) = 1
                    /\ \A i \in WithId(results, reqs'[r].res.id) :
                          /\ results[i].nombre = reqs[r].body.nombre
                          /\ results[i].imagen_url = reqs[r].body.imagen_url
                          /\ results[i].favorito = 0
        /\ (Answers(r, "getGames") /\ reqs'[r].res.status = 200) =>
              \A c \in Reqs : Created(c) =>
                 /\ Cardinality(WithId(reqs'[r].res.data, reqs[c].res.id)) = 1
                 /\ \A i \in WithId(reqs'[r].res.data, reqs[c].res.id) :
                       /\ reqs'[r].res.data[i].nombre = reqs[c].body.nombre
                       /\ reqs'[r].res.data[i].imagen_url = reqs[c].body.imagen_url
                       /\ reqs'[r].res.data[i].favorito = 0
      ]_vars

\* C1 witness: a create was answered 201 and a later list returned its row
\* together with another row of the same nombre and imagen_url.
C1_Witness ==
    \E c, r \in Reqs :
        /\ Created(c)
        /\ reqs[r].op = "getGames" /\ reqs[r].pc = "done" /\ reqs[r].res.status = 200
        /\ reqs[c].res.id \in IdsOf(reqs[r].res.data)
        /\ Cardinality(Matching(reqs[r].res.data, reqs[c].body.nombre,
                                reqs[c].body.imagen_url)) = 2

\* C3: when set-favorite finds the row of its id, every result of
\* listFavoriteGames in the state it leaves includes the id if the request
\* said favorito = true and excludes it if it said false (or nothing).
C3_FavoriteListed ==
    [][\A r \in Reqs :
        (Answers(r, "putFavorite") /\ reqs'[r].res.status = 200 /\ reqs[r].id \in DOMAIN juegos) =>
            \A results \in SelectFavorites(juegos') :
               /\ ("favorito" \in DOMAIN reqs[r].body /\ reqs[r].body.favorito)
                     => reqs[r].id \in IdsOf(results)
               /\ ~("favorito" \in DOMAIN reqs[r].body /\ reqs[r].body.favorito)
                     => reqs[r].id \notin IdsOf(results)
      ]_vars

\* C3 witness: a game was marked by one request and unmarked by another,
\* and the list of favorites answered after that does not hold it.
C3_Witness ==
    \E r, q \in Reqs, id \in GameIds :
        /\ reqs[r].op = "putFavorite" /\ reqs[r].pc = "done" /\ reqs[r].id = id
        /\ reqs[r].res.status = 200 /\ reqs[r].res.changes = 1
        /\ reqs[r].body = [favorito |-> FALSE]
        /\ id \in DOMAIN juegos /\ juegos[id].favorito = 0
        /\ reqs[q].op = "getFavorites" /\ reqs[q].pc = "done" /\ reqs[q].res.status = 200
        /\ id \notin IdsOf(reqs[q].res.data)

\* C7: a set-favorite request whose UPDATE matched no row is not answered
\* with success: a 200 is sent only when a row with the id exists.
C7_FavoriteNotFound ==
    \A r \in Reqs :
        (reqs[r].op = "putFavorite" /\ reqs[r].pc = "done" /\ reqs[r].res.status = 200) =>
            reqs[r].res.changes > 0

\* An upload of connection r has been answered with a stored path.
Uploaded(r) == reqs[r].op = "postUpload" /\ reqs[r].pc = "done" /\ reqs[r].res.status = 200

\* C4: two uploads are stored under two distinct generated paths.
C4_DistinctUploadPaths ==
    \A r, q \in Reqs :
        (r # q /\ Uploaded(r) /\ Uploaded(q)) => reqs[r].res.imageUrl # reqs[q].res.imageUrl

\* The nombre of a body is missing, empty or blank.
NombreBlank(body) == "nombre" \notin DOMAIN body \/ body.nombre \in {"", " "}

\* C5: a create or update-name request whose required field is missing,
\* empty or blank is answered 400 with a message and runs no statement.
C5_BlankRejected ==
    \A r \in Reqs :
        (/\ reqs[r].op \in {"postGames", "putGames", "postFriends", "putFriends"}
         /\ \/ NombreBlank(reqs[r].body)
            \/ reqs[r].op = "postGames" /\ ImagenUrlMissing(reqs[r].body)) =>
            /\ reqs[r].pc = "done"
            /\ reqs[r].res.status = 400 /\ "error" \in DOMAIN reqs[r].res
            /\ reqs[r].queries = 0

\* C6: PUT /api/games/:id with nombre "" is answered 400 by the step that
\* receives it, for every id; that step leaves the games table as it was
\* and the request runs no statement.
C6_EmptyNameRejected ==
    [][\A r \in Reqs :
        (/\ Runs(r, "putGames")
         /\ "nombre" \in DOMAIN reqs'[r].body /\ reqs'[r].body.nombre = "") =>
            /\ reqs'[r].pc = "done" /\ reqs'[r].res.status = 400
            /\ reqs'[r].queries = 0
            /\ juegos' = juegos
      ]_vars

\* C6 witness: an update of an existing game and an update of an id with no
\* row, both with nombre "", have been answered 400.
C6_Witness ==
    \E r, q \in Reqs :
        /\ reqs[r].op = "putGames" /\ reqs[r].body = [nombre |-> ""]
        /\ reqs[r].res.status = 400 /\ reqs[r].id \in DOMAIN juegos
        /\ reqs[q].op = "putGames" /\ reqs[q].body = [nombre |-> ""]
        /\ reqs[q].res.status = 400 /\ reqs[q].id \notin DOMAIN juegos

\* In this step some handler of connection r sends its response.
Responds(r) == reqs[r].pc \notin {"idle", "done"} /\ reqs'[r].pc = "done"

\* C11: a handler whose statement faults answers 500 with the message of
\* the error; the request counts that statement once (no retry); the step
\* changes no table, no file and no other request; and the connection, like
\* every answered one, takes the next request.  No request is ever in a
\* place other than an await of its handler, its answer, or the end of the
\* delete handler that sends none.
C11_StoreFaultAnswered ==
    [][\A r \in Reqs :
        /\ (Responds(r) /\ reqs'[r].res.status = 500) =>
              /\ reqs'[r].res = [status |-> 500, error |-> "err.message"]
              /\ reqs'[r].queries = reqs[r].queries + 1
              /\ juegos' = juegos /\ amigos' = amigos
              /\ juegosAutoInc' = juegosAutoInc /\ amigosAutoInc' = amigosAutoInc
              /\ files' = files /\ unlinks' = unlinks
              /\ \A q \in Reqs \ {r} : reqs'[q] = reqs[q]
              /\ reqs'[r].pc \in {"idle", "done"}
        /\ reqs'[r].pc \in {"idle", "query", "write", "select", "delete", "done", "hung"}
        /\ reqs'[r].res.status \in {0, 200, 201, 400, 404, 500}
      ]_vars

\* C11 witness: the DELETE of a delete-game request faulted, the request was
\* answered 500 and the row is still there, and the other connection has
\* been served a list of the games.
C11_Witness ==
    \E r, q \in Reqs :
        /\ reqs[r].op = "deleteGames" /\ reqs[r].pc = "done"
        /\ reqs[r].res.status = 500 /\ reqs[r].queries = 2
        /\ reqs[r].id \in DOMAIN juegos
        /\ reqs[q].op = "getGames" /\ reqs[q].res.status = 200
        /\ reqs[r].id \in IdsOf(reqs[q].res.data)

\* The table after the nombre of the row `id`, and nothing else, became
\* `nombre`: the same ids, the other rows and the other columns as before.
OnlyNombreChanged(before, after, id, nombre) ==
    /\ DOMAIN after = DOMAIN before
    /\ \A i \in DOMAIN before \ {id} : after[i] = before[i]
    /\ after[id].nombre = nombre
    /\ \A column \in DOMAIN before[id] \ {"nombre"} : after[id][column] = before[id][column]

\* C12: an update-name request (game or friend) that reaches its UPDATE is
\* answered 200 only when its id has a row, 404 only when it has none, and
\* 500 otherwise (the statement faulted); with the 200 only the nombre of
\* that row has changed, and with the 404 and the 500 no row has changed.
C12_UpdateName ==
    [][\A r \in Reqs :
        /\ Answers(r, "putGames") =>
              /\ reqs'[r].res.status \in {200, 404, 500}
              /\ reqs'[r].res.status = 200 =>
                    /\ reqs[r].id \in DOMAIN juegos
                    /\ OnlyNombreChanged(juegos, juegos', reqs[r].id, reqs[r].body.nombre)
              /\ reqs'[r].res.status = 404 => reqs[r].id \notin DOMAIN juegos
              /\ reqs'[r].res.status # 200 => juegos' = juegos
              /\ amigos' = amigos
        /\ Answers(r, "putFriends") =>
              /\ reqs'[r].res.status \in {200, 404, 500}
              /\ reqs'[r].res.status = 200 =>
                    /\ reqs[r].id \in DOMAIN amigos
                    /\ OnlyNombreChanged(amigos, amigos', reqs[r].id, reqs[r].body.nombre)
              /\ reqs'[r].res.status = 404 => reqs[r].id \notin DOMAIN amigos
              /\ reqs'[r].res.status # 200 => amigos' = amigos
              /\ juegos' = juegos
      ]_vars

\* C12 witness: one of two games, a favorite, has been renamed and the other
\* has not, and the update of a friend id with no row was answered 404.
C12_Witness ==
    \E r, q \in Reqs :
        /\ reqs[r].op = "putGames" /\ reqs[r].pc = "done" /\ reqs[r].res.status = 200
        /\ Cardinality(DOMAIN juegos) = 2
        /\ juegos[reqs[r].id] = [nombre |-> "b", imagen_url |-> <<"img", "x.p">>, favorito |-> 1]
        /\ \E i \in DOMAIN juegos : juegos[i].nombre = "a"
        /\ reqs[q].op = "putFriends" /\ reqs[q].pc = "done" /\ reqs[q].res.status = 404

\* The path is that of a file directly in the upload directory public/img.
InMediaStore(path) ==
    Len(path) = 4 /\ SubSeq(path, 1, 3) = <<"app", "public", "img">> /\ path[4] # ""

\* C13: when create-game inserts a row, its imagen_url is the path of a file
\* that exists in the Media Store.
C13_ImageExistsAtCreation ==
    [][\A r \in Reqs :
        (Answers(r, "postGames") /\ reqs'[r].res.status = 201) =>
            /\ ImagePath(reqs[r].body.imagen_url) \in files'
            /\ InMediaStore(ImagePath(reqs[r].body.imagen_url))
      ]_vars

\* C14: no step changes the imagen_url of a game that exists before and
\* after it, no id is given twice (every row has an id below the counter
\* and a new row an id not below it), and so a game whose create response a
\* connection still holds has the imagen_url of that request.
C14_ImagenUrlImmutable ==
    [][/\ \A id \in DOMAIN juegos \cap DOMAIN juegos' :
              juegos'[id].imagen_url = juegos[id].imagen_url
       /\ \A id \in DOMAIN juegos' : id < juegosAutoInc'
       /\ \A id \in DOMAIN juegos' \ DOMAIN juegos : id >= juegosAutoInc
       /\ \A r \in Reqs :
              (Created(r)' /\ reqs'[r].res.id \in DOMAIN juegos') =>
                  juegos'[reqs'[r].res.id].imagen_url = reqs'[r].body.imagen_url
      ]_vars

\* C14 happens: a game has been renamed and marked favorite, another game
\* has been created and deleted, a file uploaded and a friend created, and
\* the first game has the imagen_url of its creation.
C14_Witness ==
    /\ 1 \in DOMAIN juegos /\ 2 \notin DOMAIN juegos /\ juegosAutoInc = 3
    /\ juegos[1] = [nombre |-> "b", imagen_url |-> <<"img", "x.p">>, favorito |-> 1]
    /\ amigos # <<>>
    /\ \E p \in files : InMediaStore(p)
\* C15: a step of the upload handler changes neither table nor their
\* counters; a step of the create-game handler changes no file, starts no
\* unlink, leaves the friends alone and at most inserts the row of its
\* request under a new id.
C15_UploadAndCreateFrames ==
    [][\A r \in Reqs :
          /\ Runs(r, "postUpload") =>
                 /\ juegos' = juegos /\ juegosAutoInc' = juegosAutoInc
                 /\ amigos' = amigos /\ amigosAutoInc' = amigosAutoInc
          /\ Runs(r, "postGames") =>
                 /\ files' = files /\ unlinks' = unlinks
                 /\ amigos' = amigos /\ amigosAutoInc' = amigosAutoInc
                 /\ \/ juegos' = juegos
                    \/ \E id \in GameIds \ DOMAIN juegos :
                          juegos' = InsertJuego(juegos, id, reqs[r].body.nombre,
                                                reqs[r].body.imagen_url)
      ]_vars

\* C15 happens: an upload has been answered 200 and a create 201 while a
\* game, a friend and one stored image exist.
C15_Witness ==
    /\ \E r, q \in Reqs : Uploaded(r) /\ Created(q)
    /\ juegos # <<>> /\ amigos # <<>>
    /\ Cardinality({p \in files : InMediaStore(p)}) = 1

C17_OrphanFileKept ==
    [][/\ \A p \in files \ files' :
              \E u \in BagToSet(unlinks) : CallbackOf(u) /\ u.path = p
       /\ \A u \in BagToSet(unlinks') :
              CopiesIn(u, unlinks') > CopiesIn(u, unlinks) =>
                  /\ u.id \in DOMAIN juegos
                  /\ u.path = ImagePath(juegos[u.id].imagen_url)
      ]_vars

\* C17 happens: a file has been uploaded, the only game ever created has
\* been deleted and its unlink has completed, and the uploaded file, which
\* that game did not name, is still stored.
C17_Witness ==
    /\ juegosAutoInc = 2 /\ juegos = <<>> /\ unlinks = EmptyBag
    /\ \E q \in Reqs :
          reqs[q].op = "deleteGames" /\ reqs[q].pc = "done" /\ reqs[q].res.status = 200
    /\ \E r \in Reqs : Uploaded(r) /\ ImagePath(reqs[r].res.imageUrl) \in files

\* The rows of a query result, and those of them that are favorites.
RowsOf(results) == {results[i] : i \in DOMAIN results}
IsFavorite(row) == row.favorito = 1

\* A query result holds no row twice and its nombres ascend.
AscendingByNombre(results) ==
    /\ Len(results) = Cardinality(RowsOf(results))
    /\ \A i, j \in DOMAIN results :
          i < j => NombreRank(results[i].nombre) <= NombreRank(results[j].nombre)

\* Connection r holds the answer of a list request that shows the rows and
\* the favorites as they are now.
HoldsList(r, op) ==
    /\ reqs[r].op = op /\ reqs[r].pc = "done" /\ reqs[r].res.status = 200
    /\ RowsOf(reqs[r].res.data) =
          IF op = "getGames" THEN Rows(juegos) ELSE {row \in Rows(juegos) : IsFavorite(row)}

\* C18 as stated: the favorites come in the relative order that the list
\* of all games gives them.  Checked on two answers that show the same
\* contents of the table.
C18_SameRelativeOrder ==
    \A r, q \in Reqs :
        (HoldsList(r, "getGames") /\ HoldsList(q, "getFavorites")) =>
            reqs[q].res.data = SelectSeq(reqs[r].res.data, IsFavorite)

\* C18, amended: listGames answers all rows of juegos, each once, with the
\* nombres ascending; listFavoriteGames answers exactly the rows with
\* favorito = 1, each once, with the nombres ascending; two rows of equal
\* nombre come in an order that either list chooses for itself.
C18_ListsOrdered ==
    [][\A r \in Reqs :
          /\ (Answers(r, "getGames") /\ reqs'[r].res.status = 200) =>
                 /\ RowsOf(reqs'[r].res.data) = Rows(juegos)
                 /\ AscendingByNombre(reqs'[r].res.data)
          /\ (Answers(r, "getFavorites") /\ reqs'[r].res.status = 200) =>
                 /\ RowsOf(reqs'[r].res.data) = {row \in Rows(juegos) : IsFavorite(row)}
                 /\ AscendingByNombre(reqs'[r].res.data)
          /\ \A q \in Reqs :
                 (HoldsList(r, "getGames")' /\ HoldsList(q, "getFavorites")') =>
                     /\ RowsOf(reqs'[q].res.data) =
                           {row \in RowsOf(reqs'[r].res.data) : IsFavorite(row)}
                     /\ \A i, j \in DOMAIN reqs'[r].res.data :
                           ( /\ i < j
                             /\ IsFavorite(reqs'[r].res.data[i]) /\ IsFavorite(reqs'[r].res.data[j])
                             /\ reqs'[r].res.data[i].nombre # reqs'[r].res.data[j].nombre ) =>
                               \E k, l \in DOMAIN reqs'[q].res.data :
                                   /\ k < l
                                   /\ reqs'[q].res.data[k] = reqs'[r].res.data[i]
                                   /\ reqs'[q].res.data[l] = reqs'[r].res.data[j]
      ]_vars

\* C18 happens: game 1 is named "b" and game 2 "a", both are favorites, and
\* the two lists have been answered with both rows, "a" first.
C18_Witness ==
    \E r, q \in Reqs :
        /\ HoldsList(r, "getGames") /\ HoldsList(q, "getFavorites")
        /\ Len(reqs[q].res.data) = 2
        /\ reqs[r].res.data = reqs[q].res.data
        /\ reqs[r].res.data[1].id = 2 /\ reqs[r].res.data[1].nombre = "a"
        /\ reqs[r].res.data[2].id = 1 /\ reqs[r].res.data[2].nombre = "b"

\* The step inserts one row into a table, under an id that had no row, and
\* leaves the other rows as they were.
InsertedAt(before, after, id, row) ==
    /\ id \notin DOMAIN before
    /\ DOMAIN after = DOMAIN before \cup {id}
    /\ after[id] = row
    /\ \A i \in DOMAIN before : after[i] = before[i]

\* C19: a create answered 201 has inserted exactly one row, the response's
\* id is the id of that row and no other row had it; a list never shows two
\* rows with one id.  For games and for friends.
C19_UniqueIds ==
    [][\A r \in Reqs :
          /\ (Answers(r, "postGames") /\ reqs'[r].res.status = 201) =>
                 InsertedAt(juegos, juegos', reqs'[r].res.id,
                            [nombre |-> reqs[r].body.nombre,
                             imagen_url |-> reqs[r].body.imagen_url, favorito |-> 0])
          /\ (Answers(r, "postFriends") /\ reqs'[r].res.status = 201) =>
                 InsertedAt(amigos, amigos', reqs'[r].res.id, [nombre |-> reqs[r].body.nombre])
          /\ (Answers(r, "getGames") /\ reqs'[r].res.status = 200) =>
                 /\ Cardinality(IdsOf(reqs'[r].res.data)) = Len(reqs'[r].res.data)
                 /\ IdsOf(reqs'[r].res.data) = DOMAIN juegos
          /\ (Answers(r, "getFriends") /\ reqs'[r].res.status = 200) =>
                 /\ Cardinality(IdsOf(reqs'[r].res.data)) = Len(reqs'[r].res.data)
                 /\ IdsOf(reqs'[r].res.data) = DOMAIN amigos
      ]_vars

\* C19 happens: game 1 and friend 1 have been created and deleted (the
\* unlink of the game's image has run), a second game and a second friend
\* exist, and each is held by a connection as the answer of its create,
\* with id 2, or as the only row of a list.
C19_Witness ==
    \E r, q \in Reqs :
        /\ DOMAIN juegos = {2} /\ DOMAIN amigos = {2}
        /\ errlog # {}
        /\ \/ Created(r) /\ reqs[r].res.id = 2
           \/ reqs[r].op = "getGames" /\ reqs[r].pc = "done" /\ reqs[r].res.status = 200
              /\ IdsOf(reqs[r].res.data) = {2}
        /\ \/ reqs[q].op = "postFriends" /\ reqs[q].pc = "done" /\ reqs[q].res.status = 201
              /\ reqs[q].res.id = 2
           \/ reqs[q].op = "getFriends" /\ reqs[q].pc = "done" /\ reqs[q].res.status = 200
              /\ IdsOf(reqs[q].res.data) = {2}

\* C20: the button of a card calls handleToggleFavorite with the boolean
\* opposite to the favorito the card shows, and the request the server
\* receives carries that boolean; the UPDATE of a set-favorite request for
\* an existing game leaves the stored favorito at the value of that
\* request's body, whatever was stored and whatever other requests are in
\* flight, changing nothing else; and the stored favorito of a game changes
\* in no other step.  So it is always the value of the request whose UPDATE
\* ran last.
C20_FinalValueNoDelta ==
    [][\A r \in Reqs :
          /\ (calls[r] = NoCall /\ calls'[r].handler = "handleToggleFavorite") =>
                 \E i \in DOMAIN games :
                     /\ calls'[r].gameId = games[i].id
                     /\ calls'[r].newFavoriteStatus = ~(games[i].favorito = 1)
          /\ (Runs(r, "putFavorite") /\ reqs'[r].pc = "query") =>
                 /\ calls[r].handler = "handleToggleFavorite"
                 /\ reqs'[r].id = calls[r].gameId
                 /\ reqs'[r].body = [favorito |-> calls[r].newFavoriteStatus]
                 /\ reqs'[r].body.favorito \in BOOLEAN
          /\ (Answers(r, "putFavorite") /\ reqs'[r].res.status = 200
                 /\ reqs[r].id \in DOMAIN juegos) =>
                 /\ DOMAIN juegos' = DOMAIN juegos
                 /\ juegos'[reqs[r].id] =
                       [juegos[reqs[r].id] EXCEPT
                           !.favorito = IF reqs[r].body.favorito THEN 1 ELSE 0]
                 /\ \A id \in DOMAIN juegos \ {reqs[r].id} : juegos'[id] = juegos[id]
          /\ \A id \in DOMAIN juegos \cap DOMAIN juegos' :
                 juegos'[id].favorito # juegos[id].favorito =>
                     \E q \in Reqs : Answers(q, "putFavorite") /\ reqs[q].id = id
      ]_vars

\* C20 happens: the button of game 1 has been pressed twice while the list
\* showed it as no favorite, both requests have been answered 200 with one
\* row changed, and the game is a favorite.
C20_Witness ==
    /\ \A r \in Reqs :
          /\ calls[r].handler = "handleToggleFavorite"
          /\ reqs[r].op = "putFavorite" /\ reqs[r].pc = "done" /\ reqs[r].id = 1
          /\ reqs[r].body = [favorito |-> TRUE]
          /\ reqs[r].res.status = 200 /\ reqs[r].res.changes = 1
    /\ 1 \in DOMAIN juegos /\ juegos[1].favorito = 1

\* C22: a create-friend answered 201 has inserted the row of its request
\* under the id it answers, and a list-friends answers the rows of the
\* table, so a list after the create shows the new row until it is deleted;
\* a delete-friend is answered 200 only for an id with a row, and removes
\* exactly that row; it is answered 404 only for an id with no row, and
\* changes nothing; otherwise (500) it changes nothing either.
C22_FriendHandlers ==
    [][\A r \in Reqs :
          /\ (Answers(r, "postFriends") /\ reqs'[r].res.status = 201) =>
                 /\ InsertedAt(amigos, amigos', reqs'[r].res.id, [nombre |-> reqs[r].body.nombre])
                 /\ \A results \in SelectAll(amigos') :
                        \E i \in DOMAIN results :
                            results[i] = [id |-> reqs'[r].res.id, nombre |-> reqs[r].body.nombre]
          /\ (Answers(r, "getFriends") /\ reqs'[r].res.status = 200) =>
                 RowsOf(reqs'[r].res.data) = Rows(amigos)
          /\ Answers(r, "deleteFriends") =>
                 /\ reqs'[r].res.status \in {200, 404, 500}
                 /\ reqs'[r].res.status = 200 =>
                        /\ reqs[r].id \in DOMAIN amigos
                        /\ DOMAIN amigos' = DOMAIN amigos \ {reqs[r].id}
                        /\ \A id \in DOMAIN amigos' : amigos'[id] = amigos[id]
                 /\ reqs'[r].res.status = 404 =>
                        /\ reqs[r].id \notin DOMAIN amigos
                        /\ UNCHANGED <<juegos, juegosAutoInc, amigos, amigosAutoInc, files,
                                       unlinks, errlog>>
                 /\ reqs'[r].res.status = 500 => amigos' = amigos
      ]_vars

\* C22 happens: friends 1 and 2 have been created, friend 1 deleted, a
\* second delete of friend 1 has been answered 404 and the list has been
\* answered with friend 2 alone.
C22_Witness ==
    \E r, q \in Reqs :
        /\ DOMAIN amigos = {2} /\ amigosAutoInc = 3
        /\ reqs[r].op = "deleteFriends" /\ reqs[r].pc = "done" /\ reqs[r].id = 1
        /\ reqs[r].res.status = 404
        /\ reqs[q].op = "getFriends" /\ reqs[q].pc = "done" /\ reqs[q].res.status = 200
        /\ IdsOf(reqs[q].res.data) = {2}

\* The requests on games (with the upload) and the requests on friends.
GameOps == {"getGames", "getFavorites", "putFavorite", "postUpload", "postGames",
            "deleteGames", "putGames"}
FriendOps == {"getFriends", "postFriends", "deleteFriends", "putFriends"}

\* C23: a step of a handler of a game request, and the callback of an
\* unlink, leave the friends table and its counter as they are; a step of
\* a handler of a friend request leaves the games table, its counter, the
\* files and the unlinks in flight as they are.
C23_IndependentCollections ==
    [][/\ \A r \in Reqs :
              /\ (\E op \in GameOps : Runs(r, op)) =>
                     amigos' = amigos /\ amigosAutoInc' = amigosAutoInc
              /\ (\E op \in FriendOps : Runs(r, op)) =>
                     /\ juegos' = juegos /\ juegosAutoInc' = juegosAutoInc
                     /\ files' = files /\ unlinks' = unlinks /\ errlog' = errlog
       /\ (\E u \in BagToSet(unlinks) : CallbackOf(u)) =>
              amigos' = amigos /\ amigosAutoInc' = amigosAutoInc
      ]_vars

\* C23 happens: a file has been uploaded, game 1 renamed and marked, game 2
\* created and deleted, friend 1 created, renamed and deleted and friend 2
\* created.
C23_Witness ==
    /\ DOMAIN juegos = {1} /\ juegosAutoInc = 3
    /\ juegos[1].nombre = "b" /\ juegos[1].favorito = 1
    /\ DOMAIN amigos = {2} /\ amigosAutoInc = 3
    /\ \E r \in Reqs : reqs[r].op = "putFriends" /\ reqs[r].pc = "done" /\ reqs[r].res.status = 200
    /\ \E p \in files : InMediaStore(p)

\* C24: the favorito of every row is 0 or 1; a row is inserted with 0; and
\* the UPDATE of a set-favorite request whose body holds a boolean leaves
\* the row of its id with 1 if and only if the boolean is true (and so with
\* 0 if and only if it is false).
C24_FavoritoIsBit ==
    [][/\ \A id \in DOMAIN juegos' : juegos'[id].favorito \in {0, 1}
       /\ \A id \in DOMAIN juegos' \ DOMAIN juegos : juegos'[id].favorito = 0
       /\ \A r \in Reqs :
              ( /\ Answers(r, "putFavorite") /\ reqs'[r].res.status = 200
                /\ reqs[r].id \in DOMAIN juegos
                /\ "favorito" \in DOMAIN reqs[r].body ) =>
                  /\ juegos'[reqs[r].id].favorito = 1 <=> reqs[r].body.favorito = TRUE
                  /\ juegos'[reqs[r].id].favorito = 0 <=> reqs[r].body.favorito = FALSE
      ]_vars

\* C24 happens: a set-favorite with false for game 1 and one with true for
\* game 2 have each changed a row, and game 1 holds 0 and game 2 holds 1.
C24_Witness ==
    \E r, q \in Reqs :
        /\ reqs[r].op = "putFavorite" /\ reqs[r].pc = "done" /\ reqs[r].id = 1
        /\ reqs[r].body = [favorito |-> FALSE]
        /\ reqs[r].res.status = 200 /\ reqs[r].res.changes = 1
        /\ reqs[q].op = "putFavorite" /\ reqs[q].pc = "done" /\ reqs[q].id = 2
        /\ reqs[q].body = [favorito |-> TRUE]
        /\ reqs[q].res.status = 200 /\ reqs[q].res.changes = 1
        /\ DOMAIN juegos = {1, 2} /\ juegos[1].favorito = 0 /\ juegos[2].favorito = 1

\* C25: a delete-game request is always on its way to a response or holds
\* one, which is 200, 404 or 500: its handler never ends without having
\* sent a response.
C25_DeleteAlwaysAnswered ==
    \A r \in Reqs :
        reqs[r].op = "deleteGames" =>
            /\ reqs[r].pc \in {"select", "delete", "done"}
            /\ reqs[r].pc = "done" => reqs[r].res.status \in {200, 404, 500}

\* C26: an image file of the upload directory that an unlink removes is
\* the image of no game that exists when it is removed.
C26_SharedImageKept ==
    [][\A p \in files \ files' :
          InMediaStore(p) => \A id \in DOMAIN juegos : ImagePath(juegos[id].imagen_url) # p
      ]_vars

\* C27: the file that the unlink of a deleted game removes lies in the
\* upload directory public/img.
C27_UnlinkInsideMediaStore ==
    [][\A u \in BagToSet(unlinks) :
          CallbackOf(u) => \A p \in files \ files' : InMediaStore(p)
      ]_vars

\* C21: never more than connectionLimit connections are checked out; no
\* query is refused a connection; a query starts to wait only when the
\* limit is reached, at the end of the queue; nobody waits while fewer than
\* the limit are checked out; and the query that obtains a returned
\* connection is the one that has waited longest.
C21_BoundedFifoPool ==
    [][/\ Cardinality(checkedOut') <= ConnectionLimit
       /\ refused' = {}
       /\ waiters' # <<>> => Cardinality(checkedOut') = ConnectionLimit
       /\ \A q \in PoolQueries :
              /\ (q \in Waiting' /\ q \notin Waiting) =>
                     /\ Cardinality(checkedOut) = ConnectionLimit
                     /\ waiters' = Append(waiters, q)
              /\ (q \in Waiting /\ q \notin Waiting') =>
                     /\ q = Head(waiters) /\ waiters' = Tail(waiters)
                     /\ q \in checkedOut'
                     /\ \E p \in checkedOut : checkedOut' = (checkedOut \ {p}) \cup {q}
      ]_vars

\* C21 happens: ten connections are checked out and two queries wait.
C21_Witness ==
    /\ Cardinality(checkedOut) = ConnectionLimit
    /\ Len(waiters) = 2
    /\ refused = {}

\* The server has deleted game g and the panel has processed the response
\* of every delete it sent for g.
DeletionConfirmed(g) ==
    /\ g \notin DOMAIN juegos /\ g < juegosAutoInc
    /\ \A r \in Reqs : ~(calls[r].handler = "handleDeleteGame" /\ calls[r].gameId = g)

\* In this step the continuation of a loadGames runs (a reload).
Reloads == \E r \in Reqs : calls[r].handler = "loadGames" /\ calls'[r] = NoCall

\* C28: a game whose deletion has been confirmed and that the panel does
\* not show is not shown after any step that is no reload.
C28_DeletedGameStaysGone ==
    [][\A g \in GameIds :
          (DeletionConfirmed(g) /\ g \notin IdsOf(games) /\ ~Reloads) => g \notin IdsOf(games')
      ]_vars

\* The add-game form's submit handler runs on connection r.
Submitting(r) == calls[r].handler = "handleSubmit"

\* C29: the add-game workflow of the client has two phases.  A create is
\* sent by the form only from a submit that has passed its upload, and it
\* carries the name typed and the imageUrl the upload answered; a submit
\* passes its upload only on an answer that is ok; a submit that ends at its
\* upload, because the fetch was rejected or answered with a failure, sends
\* no create; isSubmitting of the mounted form holds only while a submit of
\* that form is under way, is false when that submit ends, whatever its
\* outcome, and so always becomes false again.  A submit whose form has been
\* unmounted still runs both phases; its setIsSubmitting reaches no form.
C29_TwoPhaseSubmit ==
    /\ [][\A r \in Reqs :
            /\ (reqs[r].pc = "idle" /\ Runs(r, "postGames"))
                  => /\ Submitting(r) /\ calls[r].pc = "create"
                     /\ reqs'[r].body = [nombre |-> calls[r].nombre,
                                         imagen_url |-> calls[r].imageUrl]
            /\ (Submitting(r) /\ calls[r].pc = "upload" /\ Submitting(r)' /\ calls'[r].pc = "create")
                  => /\ Uploaded(r) /\ Ok(reqs[r].res)
                     /\ calls'[r].imageUrl = reqs[r].res.imageUrl
            /\ (Submitting(r) /\ calls[r].pc = "upload" /\ ~Submitting(r)')
                  => /\ ~(reqs[r].pc = "done" /\ Ok(reqs[r].res))
                     /\ juegos' = juegos /\ reqs'[r].op # "postGames"
            /\ (Submitting(r) /\ Mounted(calls[r]) /\ ~Submitting(r)') => ~isSubmitting'
            /\ isSubmitting' => \E q \in Reqs : Submitting(q)' /\ Mounted(calls'[q])
       ]_vars
    /\ []<>(~isSubmitting)

\* A submit has run both phases: the upload stored a file, the create
\* inserted a row with the name typed and the imageUrl of that file, the
\* handler has ended and started loadGames, and isSubmitting is false again.
C29_Witness ==
    \E r \in Reqs, id \in DOMAIN juegos :
        /\ calls[r].handler = "loadGames" /\ ~isSubmitting
        /\ juegos[id].nombre = "a"
        /\ InMediaStore(ImagePath(juegos[id].imagen_url))
        /\ ImagePath(juegos[id].imagen_url) \in files

====
